---------------------------- MODULE Spec2Model ----------------------------
(***************************************************************************)
(* A model of zahir-sample: the Seed base-58 codec, the Wyhash mixing      *)
(* hash and the Worley noise node.                                         *)
(*                                                                         *)
(* Machine integers are kept at their full width.  A u64 is a sequence of  *)
(* 8 bytes and a u128 a sequence of 16 bytes, least significant byte       *)
(* first; the arithmetic below works on those sequences.  A string is the  *)
(* sequence of its characters' code points.                                *)
(***************************************************************************)
EXTENDS Integers, Sequences, FiniteSets, TLC

VARIABLES
    phase,      \* which operation acted last
    seed,       \* the Seed in hand: 32 bytes, or NoSeed
    text,       \* the string in hand: a sequence of code points
    parsed,     \* the result of the last from_base58, or NoResult
    canonical   \* what to_base58 returned for the Seed that from_base58 gave, or NoResult

seedVars == <<phase, seed, text, parsed, canonical>>

VARIABLES
    hashers,    \* the client's two Wyhash values, each with the Seed it was built from
    callerRng,  \* the client's own ChaCha8Rng
    call        \* the last hasher call: the hasher, its instance, its arguments and its result

hashVars == <<hashers, callerRng, call>>

VARIABLES
    node,       \* the client's WorleyNode
    result      \* the last value_at call: the point and what the call returned

worleyVars == <<node, result>>

VARIABLES
    neighborhood,  \* the client's LatticeNeighborhood iterator, with the build's overflow checks
    yielded        \* what the calls of next returned so far

latticeVars == <<neighborhood, yielded>>

VARIABLES
    vertices,  \* the point the client asked about and its VertexNeighborhood iterator
    corners    \* what the calls of next returned so far

vertexVars == <<vertices, corners>>

VARIABLES
    perlin,  \* the client's PerlinNode and the point it asks about
    noise    \* what value_at and the default value_at returned for it, and the lists of the default one

perlinVars == <<perlin, noise>>

VARIABLES
    bitset,  \* the two EnumBitSet values x and y of a client, over one key type
    calls    \* the calls the client has made on them, each with x before and after it

bitsetVars == <<bitset, calls>>

VARIABLES
    dice,   \* a call of gen_explodable_range or multi_gen_explodable_range: its arguments and its locals
    rolls   \* the values the call has drawn from the range so far

diceVars == <<dice, rolls>>

VARIABLES
    span,   \* a running call of Wyhash::hash_bytes: the hasher, the span of bytes, where the call stands and its locals
    reads   \* the reads of the span the call has made so far, each with its first index and its width

spanVars == <<span, reads>>

vars == <<seedVars, hashVars, worleyVars, latticeVars, vertexVars, perlinVars, bitsetVars, diceVars, spanVars>>

\* what the operations of one part of the library leave alone
notSeedVars == <<hashVars, worleyVars, latticeVars, vertexVars, perlinVars, bitsetVars, diceVars, spanVars>>
notHashVars == <<seedVars, worleyVars, latticeVars, vertexVars, perlinVars, bitsetVars, diceVars, spanVars>>
notWorleyVars == <<seedVars, hashVars, latticeVars, vertexVars, perlinVars, bitsetVars, diceVars, spanVars>>
notLatticeVars == <<seedVars, hashVars, worleyVars, vertexVars, perlinVars, bitsetVars, diceVars, spanVars>>
notVertexVars == <<seedVars, hashVars, worleyVars, latticeVars, perlinVars, bitsetVars, diceVars, spanVars>>
notPerlinVars == <<seedVars, hashVars, worleyVars, latticeVars, vertexVars, bitsetVars, diceVars, spanVars>>
notBitsetVars == <<seedVars, hashVars, worleyVars, latticeVars, vertexVars, perlinVars, diceVars, spanVars>>
notDiceVars == <<seedVars, hashVars, worleyVars, latticeVars, vertexVars, perlinVars, bitsetVars, spanVars>>
notSpanVars == <<seedVars, hashVars, worleyVars, latticeVars, vertexVars, perlinVars, bitsetVars, diceVars>>

(***************************************************************************)
(* Unsigned integers as little-endian byte sequences                       *)
(***************************************************************************)

Zeros(n) == [i \in 1..n |-> 0]

RECURSIVE FromNat(_, _)
\* the n-byte little-endian form of a small natural number
FromNat(v, n) == IF n = 0 THEN <<>> ELSE <<v % 256>> \o FromNat(v \div 256, n - 1)

IsZero(a) == \A i \in 1..Len(a) : a[i] = 0

\* a < k for a small natural k (k <= 256)
LessThanSmall(a, k) == a[1] < k /\ \A i \in 2..Len(a) : a[i] = 0

Reverse(s) == [i \in 1..Len(s) |-> s[Len(s) + 1 - i]]

RECURSIVE AddCarry(_, _, _, _)
\* a + b + c from byte i on, c a small natural number: the bytes of the sum followed
\* by the carry out of the top byte
AddCarry(a, b, i, c) ==
    IF i > Len(a) THEN <<c>>
    ELSE LET t == a[i] + b[i] + c
         IN  <<t % 256>> \o AddCarry(a, b, i + 1, t \div 256)

RECURSIVE MulSmallCarry(_, _, _, _)
\* a * k + c from byte i on, k and c small natural numbers: the bytes of the low
\* Len(a) bytes followed by what is above them
MulSmallCarry(a, k, i, c) ==
    IF i > Len(a) THEN <<c>>
    ELSE LET t == a[i] * k + c
         IN  <<t % 256>> \o MulSmallCarry(a, k, i + 1, t \div 256)

RECURSIVE DivSmallFrom(_, _, _, _)
\* long division of (r * 256^i + the low i bytes of a) by the small divisor d, from
\* byte i down: the quotient's bytes, most significant first, followed by the remainder
DivSmallFrom(a, d, i, r) ==
    IF i = 0 THEN <<r>>
    ELSE LET t == r * 256 + a[i]
         IN  <<t \div d>> \o DivSmallFrom(a, d, i - 1, t % d)

(***************************************************************************)
(* Seed and its base-58 text form (src/random/seed.rs)                     *)
(***************************************************************************)

NUM_BYTES == 32
STR_LEN == 44

NoSeed == <<>>
NoResult == [tag |-> "None"]

DEFAULT_SEED ==
    <<18, 227, 217, 69, 60, 106, 187, 51, 157, 107, 46, 111, 83, 152, 126, 122, 232,
      163, 9, 224, 142, 167, 57, 239, 240, 61, 72, 98, 179, 237, 151, 128>>

\* LittleEndian::read_u64(&bytes[k..]), k counted from 0
read_u64(bytes, k) == SubSeq(bytes, k + 1, k + 8)

\* the u64 of a small natural number
U64(v) == FromNat(v, 8)

\* the character of a base-58 digit; -1 stands for the panic of the last arm
digit_to_char(digit) ==
    IF digit \in 0..8 THEN digit + 49
    ELSE IF digit \in 9..16 THEN digit + 56
    ELSE IF digit \in 17..21 THEN digit + 57
    ELSE IF digit \in 22..32 THEN digit + 58
    ELSE IF digit \in 33..43 THEN digit + 64
    ELSE IF digit \in 44..57 THEN digit + 65
    ELSE -1

\* DivStep58 with the remainder of the limb above dropped
DivStep58_NoRem(limb, rem) ==
    LET qr == DivSmallFrom(limb, 58, 8, 0)
    IN  [q |-> Reverse(SubSeq(qr, 1, 8)), r |-> qr[9]]

\* one step of the long division by 58, for a remainder rem < 58 of the limb above:
\* m = u128::from(limb) + (u128::from(rem) << 64); q is (m / 58) as u64, r is m % 58.
\* The bytes of m above the limb are those of rem, so the division starts from rem.
DivStep58(limb, rem) ==
    LET qr == DivSmallFrom(limb, 58, 8, rem % 58)
    IN  [q |-> Reverse(SubSeq(qr, 1, 8)), r |-> qr[9]]

\* the four division steps of one pass of the loop, from the top limb w down to x:
\* the limbs of the quotient and the last remainder
DivLimbs58(x, y, z, w) ==
    LET dw == DivStep58(w, 0)
        dz == DivStep58(z, dw.r)
        dy == DivStep58(y, dz.r)
        dx == DivStep58(x, dy.r)
    IN  [mx |-> dx.q, my |-> dy.q, mz |-> dz.q, mw |-> dw.q, rem |-> dx.r]

\* one pass of the loop of to_base58 over its locals: a digit is pushed, and either
\* the loop breaks (done) or the limbs become the quotient
EncodeStep(st) ==
    LET d == DivLimbs58(st.x, st.y, st.z, st.w)
        pushed == Append(st.buffer, digit_to_char(d.rem))
    IN  IF LessThanSmall(d.mx, 58) /\ IsZero(d.my) /\ IsZero(d.mz) /\ IsZero(d.mw)
        THEN [st EXCEPT !.done = TRUE,
                        !.buffer = IF d.mx[1] > 0
                                   THEN Append(pushed, digit_to_char(d.mx[1]))
                                   ELSE pushed]
        ELSE [x |-> d.mx, y |-> d.my, z |-> d.mz, w |-> d.mw, done |-> FALSE,
              buffer |-> pushed]

RECURSIVE EncodeLoop(_)
\* the loop of to_base58: the buffer of characters, least significant digit first
EncodeLoop(st) == IF st.done THEN st.buffer ELSE EncodeLoop(EncodeStep(st))

\* to_base58 without the padding loop
PadBuffer_None(buffer) == buffer

\* `while buffer.len() < STR_LEN { buffer.push('1') }`
PadBuffer(buffer) ==
    IF Len(buffer) < STR_LEN
    THEN buffer \o [i \in 1..(STR_LEN - Len(buffer)) |-> 49]
    ELSE buffer

\* Seed::to_base58
to_base58(bytes) ==
    Reverse(PadBuffer(EncodeLoop([x |-> read_u64(bytes, 0), y |-> read_u64(bytes, 8),
                                  z |-> read_u64(bytes, 16), w |-> read_u64(bytes, 24),
                                  buffer |-> <<>>, done |-> FALSE])))

\* the number of bytes of a character in UTF-8
Utf8Len(c) == IF c < 128 THEN 1 ELSE IF c < 2048 THEN 2 ELSE IF c < 65536 THEN 3 ELSE 4

RECURSIVE StrLen(_)
\* str::len: the length of the string in bytes
StrLen(s) == IF s = <<>> THEN 0 ELSE Utf8Len(Head(s)) + StrLen(Tail(s))

\* a match that takes '0' for the digit of value 0 as well
char_value_ZeroToo(char_ord) ==
    IF char_ord \in 48..57 THEN (IF char_ord = 48 THEN 0 ELSE char_ord - 49)
    ELSE IF char_ord \in 65..72 THEN char_ord - 56
    ELSE IF char_ord \in 74..78 THEN char_ord - 57
    ELSE IF char_ord \in 80..90 THEN char_ord - 58
    ELSE IF char_ord \in 97..107 THEN char_ord - 64
    ELSE IF char_ord \in 109..122 THEN char_ord - 65
    ELSE -1

\* the value of a base-58 character; -1 stands for the arm that returns InvalidCharacter
char_value(char_ord) ==
    IF char_ord \in 49..57 THEN char_ord - 49
    ELSE IF char_ord \in 65..72 THEN char_ord - 56
    ELSE IF char_ord \in 74..78 THEN char_ord - 57
    ELSE IF char_ord \in 80..90 THEN char_ord - 58
    ELSE IF char_ord \in 97..107 THEN char_ord - 64
    ELSE IF char_ord \in 109..122 THEN char_ord - 65
    ELSE -1

ErrInvalidLength(n) == [tag |-> "InvalidLength", length |-> n]
ErrInvalidCharacter(c, i) == [tag |-> "InvalidCharacter", character |-> c, index |-> i]
ErrOverflow == [tag |-> "Overflow"]
OkSeed(bytes) == [tag |-> "Ok", bytes |-> bytes]

\* one limb of mul_u256: m = u128::from(limb) * multiplicand + carry, for a
\* multiplicand below 256 (the callers pass 58 and the digits): lo is m as u64 and
\* carry is m >> 64, a small number
MulStep(limb, multiplicand, carry) ==
    LET m == MulSmallCarry(limb, multiplicand, 1, carry)
    IN  [lo |-> SubSeq(m, 1, 8), carry |-> m[9]]

\* mul_u256 with the carry out of the top limb not checked
mul_u256_Unchecked(multiplicand, x, y, z, w) ==
    LET mx == MulStep(x, multiplicand, 0)
        my == MulStep(y, multiplicand, mx.carry)
        mz == MulStep(z, multiplicand, my.carry)
        mw == MulStep(w, multiplicand, mz.carry)
    IN  [ok |-> TRUE, x |-> mx.lo, y |-> my.lo, z |-> mz.lo, w |-> mw.lo]

\* mul_u256: the four limbs of the product, or ok = FALSE for Err(Overflow)
mul_u256(multiplicand, x, y, z, w) ==
    LET mx == MulStep(x, multiplicand, 0)
        my == MulStep(y, multiplicand, mx.carry)
        mz == MulStep(z, multiplicand, my.carry)
        mw == MulStep(w, multiplicand, mz.carry)
    IN  IF mw.carry > 0 THEN [ok |-> FALSE]
        ELSE [ok |-> TRUE, x |-> mx.lo, y |-> my.lo, z |-> mz.lo, w |-> mw.lo]

\* AccStep with the carry of the limb below lost
AccStep_DropCarry(s, i, carry) ==
    LET m == AddCarry(s, i, 1, 0)
    IN  [lo |-> SubSeq(m, 1, 8), carry |-> m[9]]

\* one limb of the accumulation: m = u128::from(s) + u128::from(i) + carry;
\* lo is m as u64 and carry is m >> 64
AccStep(s, i, carry) ==
    LET m == AddCarry(s, i, 1, carry)
    IN  [lo |-> SubSeq(m, 1, 8), carry |-> m[9]]

\* one pass of the loop of from_base58 over s.chars().rev().enumerate(), on its
\* locals: idx, the limbs s = <<sx, sy, sz, sw>> of the sum and b = <<bx, by, bz, bw>>
\* of the power of 58.  ret is what the function returns, once it does; its field
\* `at` records the loop index of the return.
DecodeStep(rchars, st) ==
    LET idx == st.idx
        s   == st.s
        b   == st.b
        c   == rchars[idx + 1]
        cv  == char_value(c)
        nb  == IF idx # 1 THEN mul_u256(58, b[1], b[2], b[3], b[4])
               ELSE [ok |-> TRUE, x |-> b[1], y |-> b[2], z |-> b[3], w |-> b[4]]
        i   == mul_u256(cv, nb.x, nb.y, nb.z, nb.w)
        ax  == AccStep(s[1], i.x, 0)
        ay  == AccStep(s[2], i.y, ax.carry)
        az  == AccStep(s[3], i.z, ay.carry)
        aw  == AccStep(s[4], i.w, az.carry)
    IN  IF idx >= Len(rchars)
        THEN [st EXCEPT !.ret = [tag |-> "Ok", bytes |-> s[1] \o s[2] \o s[3] \o s[4],
                                 at |-> idx]]
        ELSE IF cv = -1
        THEN [st EXCEPT !.ret = [tag |-> "InvalidCharacter", character |-> c,
                                 index |-> STR_LEN - idx - 1, at |-> idx]]
        ELSE IF idx = 0
        THEN [st EXCEPT !.idx = 1, !.s = <<U64(cv), s[2], s[3], s[4]>>]
        ELSE IF ~nb.ok THEN [st EXCEPT !.ret = [tag |-> "Overflow", at |-> idx]]
        ELSE IF ~i.ok THEN [st EXCEPT !.ret = [tag |-> "Overflow", at |-> idx]]
        ELSE IF aw.carry > 0 THEN [st EXCEPT !.ret = [tag |-> "Overflow", at |-> idx]]
        ELSE [idx |-> idx + 1, s |-> <<ax.lo, ay.lo, az.lo, aw.lo>>,
              b |-> <<nb.x, nb.y, nb.z, nb.w>>, ret |-> st.ret]

RECURSIVE DecodeLoop(_, _)
DecodeLoop(rchars, st) ==
    IF st.ret.tag # "None" THEN st.ret ELSE DecodeLoop(rchars, DecodeStep(rchars, st))

\* from_base58 with the loop index of its return kept
from_base58_at(s) ==
    IF StrLen(s) # STR_LEN
    THEN [tag |-> "InvalidLength", length |-> StrLen(s), at |-> -1]
    ELSE DecodeLoop(Reverse(s), [idx |-> 0, s |-> <<U64(0), U64(0), U64(0), U64(0)>>,
                                 b |-> <<U64(58), U64(0), U64(0), U64(0)>>,
                                 ret |-> NoResult])

\* Seed::from_base58: Ok(seed) or the ParseSeedError
from_base58(s) ==
    LET r == from_base58_at(s)
    IN  CASE r.tag = "Ok" -> OkSeed(r.bytes)
          [] r.tag = "InvalidLength" -> ErrInvalidLength(r.length)
          [] r.tag = "InvalidCharacter" -> ErrInvalidCharacter(r.character, r.index)
          [] OTHER -> ErrOverflow

\* the literals of the tests of seed.rs
MIN_SEED == [i \in 1..NUM_BYTES |-> 0]
MAX_SEED == [i \in 1..NUM_BYTES |-> 255]
DEFAULT_STR ==
    <<57, 101, 121, 89, 122, 111, 88, 82, 120, 55, 119, 84, 86, 82, 111, 110, 54, 115, 70, 50,
    69, 87, 78, 66, 85, 99, 103, 52, 98, 88, 66, 90, 81, 98, 86, 50, 100, 74, 114, 69, 113,
    55, 65, 49>>
MIN_STR == [i \in 1..STR_LEN |-> 49]
MAX_STR ==
    <<74, 69, 75, 78, 86, 110, 107, 98, 111, 51, 106, 109, 97, 53, 110, 82, 69, 66, 66, 74,
    67, 68, 111, 88, 70, 86, 101, 75, 107, 68, 53, 54, 86, 51, 120, 75, 114, 118, 82, 109, 87,
    120, 70, 71>>
OVERFLOW_STR ==
    <<74, 69, 75, 78, 86, 110, 107, 98, 111, 51, 106, 109, 97, 53, 110, 82, 69, 66, 66, 74,
    67, 68, 111, 88, 70, 86, 101, 75, 107, 68, 53, 54, 86, 51, 120, 75, 114, 118, 82, 109, 87,
    120, 70, 72>>
INVALID_CHAR_STR ==
    <<50, 71, 106, 114, 70, 82, 109, 117, 82, 87, 86, 101, 110, 76, 48, 84, 116, 81, 97, 90,
    117, 112, 78, 111, 84, 71, 118, 69, 97, 56, 68, 105, 112, 77, 121, 104, 100, 121, 78, 89,
    120, 99, 107, 111>>


(***************************************************************************)
(* Wyhash (src/random/wyhash.rs).  A u32 is a sequence of 4 bytes and a    *)
(* u64 a sequence of 8 bytes, least significant byte first.                *)
(***************************************************************************)

RECURSIVE BitOp(_, _, _, _)
\* a bitwise operation on two n-bit numbers, from the truth table tt of one bit
BitOp(tt, a, b, n) ==
    IF n = 0 THEN 0
    ELSE tt[(a % 2) + 1][(b % 2) + 1] + 2 * BitOp(tt, a \div 2, b \div 2, n - 1)

XorNibble == [a \in 0..15 |-> [b \in 0..15 |-> BitOp(<<<<0, 1>>, <<1, 0>>>>, a, b, 4)]]
OrNibble  == [a \in 0..15 |-> [b \in 0..15 |-> BitOp(<<<<0, 1>>, <<1, 1>>>>, a, b, 4)]]
AndNibble == [a \in 0..15 |-> [b \in 0..15 |-> BitOp(<<<<0, 0>>, <<0, 1>>>>, a, b, 4)]]

ByteOp(tab, a, b) == (tab[a \div 16][b \div 16] * 16) + tab[a % 16][b % 16]

\* a ^ b, a | b, a & b on u64
Xor64(a, b) ==
    <<ByteOp(XorNibble, a[1], b[1]), ByteOp(XorNibble, a[2], b[2]),
      ByteOp(XorNibble, a[3], b[3]), ByteOp(XorNibble, a[4], b[4]),
      ByteOp(XorNibble, a[5], b[5]), ByteOp(XorNibble, a[6], b[6]),
      ByteOp(XorNibble, a[7], b[7]), ByteOp(XorNibble, a[8], b[8])>>
Or64(a, b) ==
    <<ByteOp(OrNibble, a[1], b[1]), ByteOp(OrNibble, a[2], b[2]),
      ByteOp(OrNibble, a[3], b[3]), ByteOp(OrNibble, a[4], b[4]),
      ByteOp(OrNibble, a[5], b[5]), ByteOp(OrNibble, a[6], b[6]),
      ByteOp(OrNibble, a[7], b[7]), ByteOp(OrNibble, a[8], b[8])>>
And64(a, b) ==
    <<ByteOp(AndNibble, a[1], b[1]), ByteOp(AndNibble, a[2], b[2]),
      ByteOp(AndNibble, a[3], b[3]), ByteOp(AndNibble, a[4], b[4]),
      ByteOp(AndNibble, a[5], b[5]), ByteOp(AndNibble, a[6], b[6]),
      ByteOp(AndNibble, a[7], b[7]), ByteOp(AndNibble, a[8], b[8])>>

\* `x as u64` of a u32
FromU32(x) == <<x[1], x[2], x[3], x[4], 0, 0, 0, 0>>
\* a << 32, a >> 32 and a.rotate_left(32) on u64
Shl32(a) == <<0, 0, 0, 0, a[1], a[2], a[3], a[4]>>
Shr32(a) == <<a[5], a[6], a[7], a[8], 0, 0, 0, 0>>
RotateLeft32(a) == <<a[5], a[6], a[7], a[8], a[1], a[2], a[3], a[4]>>

\* 0x0000_0000_FFFF_FFFF and 0xFFFF_FFFF_0000_0000
LOW_MASK == <<255, 255, 255, 255, 0, 0, 0, 0>>
HIGH_MASK == <<0, 0, 0, 0, 255, 255, 255, 255>>

\* the byte product a[i] * b[j] of column p = (i - 1) + (j - 1), 0 where b has
\* no byte j
ColumnTerm(a, b, p, i) ==
    IF i <= p + 1 /\ p + 2 - i <= Len(b) THEN a[i] * b[p + 2 - i] ELSE 0

\* the sum of the byte products of column p of two u64
ColumnSum(a, b, p) ==
    ((ColumnTerm(a, b, p, 1) + ColumnTerm(a, b, p, 2))
        + (ColumnTerm(a, b, p, 3) + ColumnTerm(a, b, p, 4)))
    + ((ColumnTerm(a, b, p, 5) + ColumnTerm(a, b, p, 6))
        + (ColumnTerm(a, b, p, 7) + ColumnTerm(a, b, p, 8)))

RECURSIVE MulColumns(_, _, _, _)
\* the bytes of a * b from column p on, two columns at a time, c the carry of
\* the columns below
MulColumns(a, b, p, c) ==
    IF p >= Len(a) + Len(b) THEN <<>>
    ELSE LET columns(t, u) == <<t % 256, u % 256>> \o MulColumns(a, b, p + 2, u \div 256)
             second(t) == columns(t, ColumnSum(a, b, p + 1) + (t \div 256))
         IN  second(ColumnSum(a, b, p) + c)

\* x.widening_mul(y): the low and the high u64 of the 128-bit product
widening_mul(x, y) ==
    LET halves(m) == [lo |-> SubSeq(m, 1, 8), hi |-> SubSeq(m, 9, 16)]
    IN  halves(MulColumns(x, y, 0, 0))

\* Wyhash::wymum: <<x ^ lo, y ^ hi>>, of the values a and b of the operands
wymum(x, y) ==
    LET mixed(a, b, m) == <<Xor64(a, m.lo), Xor64(b, m.hi)>>
    IN  CHOOSE r \in {mixed(a, b, widening_mul(a, b)) : a \in {x}, b \in {y}} : TRUE

\* Wyhash::wymix
wymix(x, y) ==
    LET folded(m) == Xor64(m[1], m[2])
    IN  folded(wymum(x, y))

\* Wyhash::finish; secret is indexed from 1, so secret[2] is the code's secret[1]
finish(self, lhs, rhs, seed_, len) ==
    LET last(m) == wymix(Xor64(Xor64(m[1], self.secret[1]), U64(len)),
                         Xor64(m[2], self.secret[2]))
    IN  last(wymum(Xor64(lhs, self.secret[2]), Xor64(rhs, seed_)))

hash_1u32(self, x) ==
    LET mix == Or64(Shl32(FromU32(x)), FromU32(x))
    IN  finish(self, mix, mix, self.seed, 4)

hash_2u32(self, x, y) ==
    LET lhs == Or64(Shl32(FromU32(x)), FromU32(y))
        rhs == Or64(Shl32(FromU32(y)), FromU32(x))
    IN  finish(self, lhs, rhs, self.seed, 8)

hash_3u32(self, x, y, z) ==
    LET lhs == Or64(Shl32(FromU32(x)), FromU32(y))
        rhs == Or64(Shl32(FromU32(z)), FromU32(y))
    IN  finish(self, lhs, rhs, self.seed, 12)

\* hash_4u32 that packs its arguments in the order they come
hash_4u32_InOrder(self, x, y, z, w) ==
    LET lhs == Or64(Shl32(FromU32(x)), FromU32(y))
        rhs == Or64(Shl32(FromU32(z)), FromU32(w))
    IN  finish(self, lhs, rhs, self.seed, 16)

hash_4u32(self, x, y, z, w) ==
    LET lhs == Or64(Shl32(FromU32(x)), FromU32(z))
        rhs == Or64(Shl32(FromU32(w)), FromU32(y))
    IN  finish(self, lhs, rhs, self.seed, 16)

hash_1u64(self, x) == finish(self, RotateLeft32(x), x, self.seed, 8)

hash_2u64(self, x, y) ==
    LET lhs == Or64(Shl32(x), And64(y, LOW_MASK))
        rhs == Or64(And64(y, HIGH_MASK), Shr32(x))
    IN  finish(self, lhs, rhs, self.seed, 16)

hash_3u64(self, x, y, z) ==
    finish(self, y, z, wymix(Xor64(x, self.secret[2]), Xor64(y, self.seed)), 24)

hash_4u64(self, x, y, z, w) ==
    finish(self, z, w, wymix(Xor64(x, self.secret[2]), Xor64(y, self.seed)), 32)

\* LittleEndian::read_u32(&bytes[k..]) as u64, k counted from 0
read_u32(bytes, k) == <<bytes[k + 1], bytes[k + 2], bytes[k + 3], bytes[k + 4], 0, 0, 0, 0>>

\* `bytes[k] as u64`, k counted from 0
read_u8(bytes, k) == <<bytes[k + 1], 0, 0, 0, 0, 0, 0, 0>>

\* a << 8 and a << 16 on a u64 that holds one byte
Shl8(a) == <<0, a[1], a[2], a[3], a[4], a[5], a[6], a[7]>>
Shl16(a) == <<0, 0, a[1], a[2], a[3], a[4], a[5], a[6]>>

\* one pass of `while remaining >= 48`: the three running seeds absorb 48 bytes
BulkStep(self, bytes, st) ==
    LET o == st.offset
    IN  [seed |-> wymix(Xor64(read_u64(bytes, o), self.secret[2]),
                        Xor64(read_u64(bytes, o + 8), st.seed)),
         seed_1 |-> wymix(Xor64(read_u64(bytes, o + 16), self.secret[3]),
                          Xor64(read_u64(bytes, o + 24), st.seed_1)),
         seed_2 |-> wymix(Xor64(read_u64(bytes, o + 32), self.secret[4]),
                          Xor64(read_u64(bytes, o + 40), st.seed_2)),
         remaining |-> st.remaining - 48,
         offset |-> o + 48]

RECURSIVE BulkLoop(_, _, _)
BulkLoop(self, bytes, st) ==
    IF st.remaining >= 48 THEN BulkLoop(self, bytes, BulkStep(self, bytes, st)) ELSE st

\* the `if len >= 48` block: the loop, then seed ^= seed_1; seed ^= seed_2
Bulk(self, bytes, st) ==
    LET joined(e) == [e EXCEPT !.seed = Xor64(Xor64(e.seed, e.seed_1), e.seed_2)]
    IN  IF Len(bytes) >= 48 THEN joined(BulkLoop(self, bytes, st)) ELSE st

\* a pass that takes 32 bytes off remaining where 16 were absorbed
TailStep_Skip32(self, bytes, st) ==
    [st EXCEPT !.seed = wymix(Xor64(read_u64(bytes, st.offset), self.secret[2]),
                              Xor64(read_u64(bytes, st.offset + 8), st.seed)),
               !.remaining = st.remaining - 32,
               !.offset = st.offset + 32]

\* one pass of `while remaining > 16`
TailStep(self, bytes, st) ==
    [st EXCEPT !.seed = wymix(Xor64(read_u64(bytes, st.offset), self.secret[2]),
                              Xor64(read_u64(bytes, st.offset + 8), st.seed)),
               !.remaining = st.remaining - 16,
               !.offset = st.offset + 16]

RECURSIVE TailLoop(_, _, _)
TailLoop(self, bytes, st) ==
    IF st.remaining > 16 THEN TailLoop(self, bytes, TailStep(self, bytes, st)) ELSE st

\* Wyhash::hash_bytes
hash_bytes(self, bytes) ==
    LET len == Len(bytes)
    IN  IF len <= 16
        THEN IF len >= 4
             THEN LET offset_1 == (len \div 8) * 4
                      offset_2 == len - 4
                      offset_3 == offset_2 - offset_1
                      x == read_u32(bytes, 0)
                      y == read_u32(bytes, offset_1)
                      z == read_u32(bytes, offset_2)
                      w == read_u32(bytes, offset_3)
                  IN  finish(self, Or64(Shl32(x), y), Or64(Shl32(z), w), self.seed, len)
             ELSE IF len > 0
             THEN LET x == read_u8(bytes, 0)
                      y == read_u8(bytes, len \div 2)
                      z == read_u8(bytes, len - 1)
                  IN  finish(self, Or64(Or64(Shl16(x), Shl8(y)), z), U64(0), self.seed, len)
             ELSE finish(self, U64(0), U64(0), self.seed, len)
        ELSE LET tail(st) ==
                     finish(self, read_u64(bytes, st.offset + st.remaining - 16),
                            read_u64(bytes, st.offset + st.remaining - 8), st.seed, len)
             IN  tail(TailLoop(self, bytes,
                          Bulk(self, bytes,
                               [seed |-> self.seed, seed_1 |-> self.seed,
                                seed_2 |-> self.seed, remaining |-> len, offset |-> 0])))

\* the secret of the tests' build_wyhash
TEST_SECRET ==
    <<<<165, 120, 108, 170, 204, 141, 53, 45>>,
      <<201, 172, 46, 150, 147, 75, 184, 139>>,
      <<163, 212, 51, 212, 46, 166, 51, 75>>,
      <<71, 170, 225, 29, 165, 45, 90, 77>>>>

\* tests::build_wyhash, for a seed given as u64
build_wyhash(seed_) ==
    [seed |-> Xor64(seed_, wymix(Xor64(seed_, TEST_SECRET[1]), TEST_SECRET[2])),
     secret |-> TEST_SECRET]

(***************************************************************************)
(* ChaCha8Rng, the generator that src/random/seedable.rs seeds from a Seed *)
(* and that Wyhash::from_seed and WorleyNode draw from.  A generator is    *)
(* [key, stream, pos]: word pos of the key stream of (key, stream) is the  *)
(* next 32-bit word it returns.  A 32-bit word is <<low half, high half>>, *)
(* each half below 2^16.                                                   *)
(***************************************************************************)

Add32(a, b) ==
    LET lo == a[1] + b[1]
    IN  <<lo % 65536, (a[2] + b[2] + (lo \div 65536)) % 65536>>

Xor32(a, b) ==
    <<(ByteOp(XorNibble, a[1] \div 256, b[1] \div 256) * 256)
          + ByteOp(XorNibble, a[1] % 256, b[1] % 256),
      (ByteOp(XorNibble, a[2] \div 256, b[2] \div 256) * 256)
          + ByteOp(XorNibble, a[2] % 256, b[2] % 256)>>

\* a.rotate_left(k), for k = 16 or k < 16
RotL32(a, k) ==
    IF k = 16 THEN <<a[2], a[1]>>
    ELSE LET p == 2 ^ k
             q == 2 ^ (16 - k)
         IN  <<((a[1] * p) % 65536) + (a[2] \div q), ((a[2] * p) % 65536) + (a[1] \div q)>>

\* the ChaCha quarter round on the words a, b, c, d of the block x
QuarterRound(x, a, b, c, d) ==
    LET h4(h, a1, c1, r) == <<a1, RotL32(Xor32(h[2], c1), r[2]), c1, h[4]>>
        h3(h, a1, d1, r) == h4(<<a1, h[2], h[3], d1>>, a1, Add32(h[3], d1), r)
        h2(h, a1, r) == h3(h, a1, RotL32(Xor32(h[4], a1), r[1]), r)
        half(h, r) == h2(h, Add32(h[1], h[2]), r)
        put(v, h) == [v EXCEPT ![a] = h[1], ![b] = h[2], ![c] = h[3], ![d] = h[4]]
        round(v) == put(v, half(half(<<v[a], v[b], v[c], v[d]>>, <<16, 12>>), <<8, 7>>))
    IN  CHOOSE r \in {round(v) : v \in {x}} : TRUE

\* the words of the quarter rounds of a double round: the four columns, then the
\* four diagonals
QuarterRoundWords ==
    <<<<1, 5, 9, 13>>, <<2, 6, 10, 14>>, <<3, 7, 11, 15>>, <<4, 8, 12, 16>>,
      <<1, 6, 11, 16>>, <<2, 7, 12, 13>>, <<3, 8, 9, 14>>, <<4, 5, 10, 15>>>>

RECURSIVE QuarterRounds(_, _, _)
\* the quarter rounds lo..hi of a double round on the block x, one after the
\* other: those of the first half, then those of the second half on the result
QuarterRounds(x, lo, hi) ==
    LET at(w) == QuarterRound(x, w[1], w[2], w[3], w[4])
        mid == (lo + hi) \div 2
    IN  IF lo = hi THEN at(QuarterRoundWords[lo])
        ELSE CHOOSE r \in {QuarterRounds(y, mid + 1, hi) : y \in {QuarterRounds(x, lo, mid)}} :
                 TRUE

\* a column round followed by a diagonal round
DoubleRound(x) == QuarterRounds(x, 1, 8)

RECURSIVE DoubleRounds(_, _)
DoubleRounds(x, n) ==
    IF n = 0 THEN x
    ELSE CHOOSE r \in {DoubleRounds(y, n - 1) : y \in {DoubleRound(x)}} : TRUE

\* the 32-bit word of four bytes starting at byte k (counted from 0)
Word32(bytes, k) == <<bytes[k + 1] + (256 * bytes[k + 2]), bytes[k + 3] + (256 * bytes[k + 4])>>

\* block number `block` of the key stream after n double rounds: "expand 32-byte k",
\* the key, the 64-bit block counter and the 64-bit stream number
ChaChaBlock(n, key, block, stream) ==
    LET sum(x, y) == [i \in 1..16 |-> Add32(x[i], y[i])]
        run(x) == sum(x, DoubleRounds(x, n))
    IN  run(<<<<30821, 24944>>, <<25710, 13088>>, <<11570, 31074>>, <<25972, 27424>>,
              Word32(key, 0), Word32(key, 4), Word32(key, 8), Word32(key, 12),
              Word32(key, 16), Word32(key, 20), Word32(key, 24), Word32(key, 28),
              <<block % 65536, block \div 65536>>, <<0, 0>>,
              Word32(stream, 0), Word32(stream, 4)>>)

\* <ChaCha8Rng as SeedableRng>::from_seed(seed.bytes)
ChaCha8Rng_from_seed(bytes) == [key |-> bytes, stream |-> U64(0), pos |-> 0]

\* rng.next_u64(): the next two words of the key stream, the first one the low half
next_u64(rng) ==
    LET u64(lo, hi) == <<lo[1] % 256, lo[1] \div 256, lo[2] % 256, lo[2] \div 256,
                         hi[1] % 256, hi[1] \div 256, hi[2] % 256, hi[2] \div 256>>
        draw(block) == [value |-> u64(block[(rng.pos % 16) + 1], block[(rng.pos % 16) + 2]),
                        rng |-> [rng EXCEPT !.pos = @ + 2]]
    IN  draw(ChaChaBlock(4, rng.key, rng.pos \div 16, rng.stream))

RECURSIVE Draws(_, _, _)
\* k calls of rng.next_u64(): the values drawn after those of acc, and the
\* generator after the draws
Draws(rng, k, acc) ==
    IF k = 0 THEN [values |-> acc, rng |-> rng]
    ELSE CHOOSE r \in {Draws(d.rng, k - 1, Append(acc, d.value)) : d \in {next_u64(rng)}} : TRUE

\* Wyhash::from_rng: five draws (seed, secret_0 .. secret_3); the instance and
\* the generator after the draws
from_rng(rng) ==
    LET built(seed_, secret_0, secret_1, secret_2, secret_3, after) ==
            [self |-> [seed |-> Xor64(seed_, wymix(Xor64(seed_, secret_0), secret_1)),
                       secret |-> <<secret_0, secret_1, secret_2, secret_3>>],
             rng |-> after]
        drawn(d) == built(d.values[1], d.values[2], d.values[3], d.values[4], d.values[5], d.rng)
    IN  drawn(Draws(rng, 5, <<>>))

\* Wyhash::from_seed: from_rng on a generator of its own, freshly seeded
from_seed(seed_) == from_rng(ChaCha8Rng_from_seed(seed_)).self

(***************************************************************************)
(* Wyhash as a state machine: a client holds two Wyhash values and a       *)
(* generator of its own, builds the values with from_seed and from_rng     *)
(* and calls the hashers on them.                                          *)
(***************************************************************************)

NumArgPatterns == 1
MaxRngBuilds == 1

\* Option: None and Some(v)
None == [tag |-> "None"]
Some(v) == [tag |-> "Some", value |-> v]

NoHasher == [tag |-> "None"]
NoCall == [fn |-> "None"]

\* width in bytes and number of the arguments of the fixed-arity hashers
Signature ==
    [hash_1u32 |-> <<4, 1>>, hash_2u32 |-> <<4, 2>>, hash_3u32 |-> <<4, 3>>,
     hash_4u32 |-> <<4, 4>>, hash_1u64 |-> <<8, 1>>, hash_2u64 |-> <<8, 2>>,
     hash_3u64 |-> <<8, 3>>, hash_4u64 |-> <<8, 4>>]

FixedArity == DOMAIN Signature

\* trait HashFn: the call of hasher fn of self on the arguments a
Apply(self, fn, a) ==
    CASE fn = "hash_1u32" -> hash_1u32(self, a[1])
      [] fn = "hash_2u32" -> hash_2u32(self, a[1], a[2])
      [] fn = "hash_3u32" -> hash_3u32(self, a[1], a[2], a[3])
      [] fn = "hash_4u32" -> hash_4u32(self, a[1], a[2], a[3], a[4])
      [] fn = "hash_1u64" -> hash_1u64(self, a[1])
      [] fn = "hash_2u64" -> hash_2u64(self, a[1], a[2])
      [] fn = "hash_3u64" -> hash_3u64(self, a[1], a[2], a[3])
      [] fn = "hash_4u64" -> hash_4u64(self, a[1], a[2], a[3], a[4])
      [] fn = "hash_bytes" -> hash_bytes(self, a)

\* a hasher that keeps the value it returned as the seed of its next call
HashFn_call_Streaming(self, fn, a) ==
    LET kept(out) == [self |-> [self EXCEPT !.seed = out], out |-> out]
    IN  kept(Apply(self, fn, a))

\* a call of hasher fn through &self: the instance after the call, which no
\* hasher writes to, and the value returned
HashFn_call(self, fn, a) == [self |-> self, out |-> Apply(self, fn, a)]

\* the arguments the client passes: n bytes of pattern k, from byte j on
PatternBytes(k, j, n) == [b \in 1..n |-> ((k * 83) + ((j + b) * (29 + (16 * k)))) % 256]

ArgInputs(fn) ==
    IF fn = "hash_bytes"
    THEN {PatternBytes(k, 0, n) : k \in 1..NumArgPatterns, n \in {0, 3, 16, 70}}
    ELSE {[j \in 1..Signature[fn][2] |-> PatternBytes(k, j * Signature[fn][1], Signature[fn][1])] :
             k \in 1..NumArgPatterns}

HashSeeds == {DEFAULT_SEED, MAX_SEED}

WorleyOff == node = NoResult /\ result = NoResult
SeedOff == phase = "off" /\ seed = NoSeed /\ text = <<>> /\ parsed = NoResult /\ canonical = NoResult
HashOff == hashers = <<>> /\ callerRng = NoResult /\ call = NoCall
LatticeOff == neighborhood = NoResult /\ yielded = NoResult
VertexOff == vertices = NoResult /\ corners = NoResult
PerlinOff == perlin = NoResult /\ noise = NoResult
BitsetOff == bitset = NoResult /\ calls = NoResult
DiceOff == dice = NoResult /\ rolls = NoResult
SpanOff == span = NoResult /\ reads = NoResult

\* only one part of the library is in use
OnlySeed == HashOff /\ WorleyOff /\ LatticeOff /\ VertexOff /\ PerlinOff /\ BitsetOff /\ DiceOff /\ SpanOff
OnlyHash == SeedOff /\ WorleyOff /\ LatticeOff /\ VertexOff /\ PerlinOff /\ BitsetOff /\ DiceOff /\ SpanOff
OnlyWorley == SeedOff /\ HashOff /\ LatticeOff /\ VertexOff /\ PerlinOff /\ BitsetOff /\ DiceOff /\ SpanOff
OnlyLattice == SeedOff /\ HashOff /\ WorleyOff /\ VertexOff /\ PerlinOff /\ BitsetOff /\ DiceOff /\ SpanOff
OnlyVertex == SeedOff /\ HashOff /\ WorleyOff /\ LatticeOff /\ PerlinOff /\ BitsetOff /\ DiceOff /\ SpanOff
OnlyPerlin == SeedOff /\ HashOff /\ WorleyOff /\ LatticeOff /\ VertexOff /\ BitsetOff /\ DiceOff /\ SpanOff
OnlyBitset == SeedOff /\ HashOff /\ WorleyOff /\ LatticeOff /\ VertexOff /\ PerlinOff /\ DiceOff /\ SpanOff
OnlyDice == SeedOff /\ HashOff /\ WorleyOff /\ LatticeOff /\ VertexOff /\ PerlinOff /\ BitsetOff /\ SpanOff
OnlySpan == SeedOff /\ HashOff /\ WorleyOff /\ LatticeOff /\ VertexOff /\ PerlinOff /\ BitsetOff /\ DiceOff

HashInit ==
    /\ hashers = <<NoHasher, NoHasher>>
    /\ callerRng \in {ChaCha8Rng_from_seed(s) : s \in {MIN_SEED, DEFAULT_SEED}}
    /\ call = NoCall
    /\ OnlyHash

\* hashers[i] = Wyhash::from_seed(&s)
FromSeed ==
    /\ \E i \in 1..2, s \in HashSeeds :
          /\ hashers[i] = NoHasher
          /\ hashers' = [hashers EXCEPT ![i] = [tag |-> "Wyhash", self |-> from_seed(s), seed |-> s]]
    /\ UNCHANGED <<callerRng, call, notHashVars>>

\* hashers[i] = Wyhash::from_rng(&mut callerRng)
FromRng ==
    /\ callerRng.pos < 10 * MaxRngBuilds
    /\ \E i \in 1..2 :
          \E r \in {from_rng(callerRng)} :
              /\ hashers[i] = NoHasher
              /\ hashers' = [hashers EXCEPT ![i] = [tag |-> "Wyhash", self |-> r.self, seed |-> NoSeed]]
              /\ callerRng' = r.rng
    /\ UNCHANGED <<call, notHashVars>>

\* instance i and the instance of the call before are one instance or were
\* built by from_seed from equal Seeds
SameSeedAsBefore(i) ==
    \/ call.who = i
    \/ hashers[i].seed # NoSeed /\ hashers[call.who].seed = hashers[i].seed

\* out = hashers[i].fn(a), for any of the nine hashers; earlier tells whether a
\* hasher had been called before, and again is the call before (its instance,
\* its result and its own earlier) if that was a call of the same hasher with
\* the same arguments on an instance of the same Seed
Hash ==
    /\ \E i \in 1..2, fn \in FixedArity \cup {"hash_bytes"} :
          /\ hashers[i] # NoHasher
          /\ \E a \in ArgInputs(fn) :
                \E r \in {HashFn_call(hashers[i].self, fn, a)} :
                    /\ hashers' = [hashers EXCEPT ![i].self = r.self]
                    /\ call' = [fn |-> fn, who |-> i, args |-> a, out |-> r.out,
                                earlier |-> call # NoCall,
                                again |-> IF call # NoCall /\ call.fn = fn /\ call.args = a
                                                /\ SameSeedAsBefore(i)
                                          THEN Some([who |-> call.who, out |-> call.out,
                                                     earlier |-> call.earlier])
                                          ELSE None]
    /\ UNCHANGED <<callerRng, notHashVars>>

HashNext == FromSeed \/ FromRng \/ Hash

SpecHash == HashInit /\ [][HashNext]_vars

(***************************************************************************)
(* f64.  A value is [k, neg, mag]: k is "nan", "inf" or "fin", neg the     *)
(* sign, and mag the magnitude of a finite value as a 12-byte number of    *)
(* units of 2^-53.  Every value the Worley node meets on the inputs below  *)
(* is a multiple of that unit and keeps at most 53 significant bits, so    *)
(* sums and differences are rounded as the hardware rounds them (to        *)
(* nearest, ties to even).  A value of k "big" is the finite 2^exp with    *)
(* its sign, for exp from 97 to 1023: half a unit in its last place is     *)
(* more than every magnitude, so a sum of a big value and a magnitude is   *)
(* rounded to the big value.                                               *)
(***************************************************************************)

NaN == [k |-> "nan", neg |-> FALSE, mag |-> <<>>]
Inf(neg) == [k |-> "inf", neg |-> neg, mag |-> <<>>]
Fin(neg, mag) == [k |-> "fin", neg |-> neg, mag |-> mag]
Big(neg, e) == [k |-> "big", neg |-> neg, mag |-> <<>>, exp |-> e]

\* the f64 of magnitude q / 4, q a 5-byte number
Quarters(neg, q) == Fin(neg, Zeros(6) \o MulSmallCarry(q, 8, 1, 0))

RECURSIVE MagLess(_, _, _)
\* a < b, compared from byte i down
MagLess(a, b, i) ==
    IF i = 0 THEN FALSE
    ELSE IF a[i] # b[i] THEN a[i] < b[i]
    ELSE MagLess(a, b, i - 1)

RECURSIVE MagSub(_, _, _, _)
\* a - b from byte i on for a >= b, bw the borrow
MagSub(a, b, i, bw) ==
    IF i > Len(a) THEN <<>>
    ELSE LET t == ((256 + a[i]) - b[i]) - bw
         IN  <<t % 256>> \o MagSub(a, b, i + 1, IF t < 256 THEN 1 ELSE 0)

RECURSIVE TopByte(_, _)
\* the index of the highest byte of a that is not 0, searched from byte i down
TopByte(a, i) == IF i = 0 \/ a[i] # 0 THEN i ELSE TopByte(a, i - 1)

\* the number of significant bits of a
BitLen(a) ==
    LET j == TopByte(a, Len(a))
    IN  IF j = 0 THEN 0
        ELSE (8 * (j - 1)) + CHOOSE n \in 1..8 : a[j] < 2 ^ n /\ a[j] >= 2 ^ (n - 1)

\* 2^s as a magnitude
Pow2(s) == [i \in 1..12 |-> IF i = (s \div 8) + 1 THEN 2 ^ (s % 8) ELSE 0]

\* a rounded to 53 significant bits, to nearest and ties to even
Round53(a) ==
    LET s == BitLen(a) - 53
    IN  IF s <= 0 THEN a
        ELSE LET j == (s \div 8) + 1
                 p == 2 ^ (s % 8)
                 low == [i \in 1..12 |-> IF i < j THEN a[i] ELSE IF i = j THEN a[i] % p ELSE 0]
                 floor == MagSub(a, low, 1, 0)
                 half == Pow2(s - 1)
                 odd == (a[j] \div p) % 2 = 1
             IN  IF MagLess(half, low, 12) \/ (low = half /\ odd)
                 THEN SubSeq(AddCarry(floor, Pow2(s), 1, 0), 1, 12)
                 ELSE floor

\* a + b where a or b is big: a magnitude is absorbed, and two big values are
\* added for equal exponents only; twice 2^1023 is infinite
BigAdd(a, b) ==
    CASE a.k = "big" /\ b.k = "fin" -> a
      [] a.k = "fin" /\ b.k = "big" -> b
      [] a.k = "big" /\ b.k = "big" /\ a.exp = b.exp ->
             IF a.neg # b.neg THEN Fin(FALSE, Zeros(12))
             ELSE IF a.exp >= 1023 THEN Inf(a.neg)
             ELSE Big(a.neg, a.exp + 1)

\* a + b
FAdd(a, b) ==
    IF a.k = "nan" \/ b.k = "nan" THEN NaN
    ELSE IF a.k = "inf" THEN (IF b.k = "inf" /\ b.neg # a.neg THEN NaN ELSE a)
    ELSE IF b.k = "inf" THEN b
    ELSE IF a.k = "big" \/ b.k = "big" THEN BigAdd(a, b)
    ELSE IF a.neg = b.neg
    THEN Fin(a.neg, Round53(SubSeq(AddCarry(a.mag, b.mag, 1, 0), 1, 12)))
    ELSE IF a.mag = b.mag THEN Fin(FALSE, Zeros(12))
    ELSE IF MagLess(a.mag, b.mag, 12)
    THEN Fin(b.neg, Round53(MagSub(b.mag, a.mag, 1, 0)))
    ELSE Fin(a.neg, Round53(MagSub(a.mag, b.mag, 1, 0)))

\* a - b
FSub(a, b) == FAdd(a, IF b.k = "nan" THEN b ELSE [b EXCEPT !.neg = ~@])

\* a < b for a and b other than NaN
FLess(a, b) ==
    IF a.k = "inf" THEN a.neg /\ ~(b.k = "inf" /\ b.neg)
    ELSE IF b.k = "inf" THEN ~b.neg
    ELSE IF a.k = "big" /\ b.k = "big"
    THEN (IF a.neg # b.neg THEN a.neg ELSE IF a.neg THEN a.exp > b.exp ELSE a.exp < b.exp)
    ELSE IF a.k = "big" THEN a.neg
    ELSE IF b.k = "big" THEN ~b.neg
    ELSE IF a.neg # b.neg THEN a.neg /\ ~(IsZero(a.mag) /\ IsZero(b.mag))
    ELSE IF a.neg THEN MagLess(b.mag, a.mag, 12)
    ELSE MagLess(a.mag, b.mag, 12)

\* a.partial_cmp(&b)
partial_cmp(a, b) ==
    IF a.k = "nan" \/ b.k = "nan" THEN "None"
    ELSE IF FLess(a, b) THEN "Less"
    ELSE IF FLess(b, a) THEN "Greater"
    ELSE "Equal"

\* a / b for b = 1.0 and b = 2.0, the divisors value_at meets in one and
\* two dimensions; the magnitudes halved are even
FDiv(a, b) ==
    IF a.k = "big" /\ b.mag # Pow2(53) THEN Big(a.neg, a.exp - 1)
    ELSE IF a.k # "fin" \/ b.mag = Pow2(53) THEN a
    ELSE Fin(a.neg, Reverse(SubSeq(DivSmallFrom(a.mag, 2, 12, 0), 1, 12)))

I32_MAX == 2147483647
I32_MIN == -2147483647 - 1

\* `c as f64` of an i32
FromI32(c) ==
    LET m == IF c = I32_MIN THEN <<0, 0, 0, 128>> ELSE FromNat(IF c < 0 THEN -c ELSE c, 4)
    IN  Quarters(c < 0, MulSmallCarry(m, 4, 1, 0))

\* `a.floor() as i32`: NaN gives 0 and the cast saturates
FloorToI32(a) ==
    IF a.k = "nan" THEN 0
    ELSE IF a.k \in {"inf", "big"} \/ a.mag[12] > 0 \/ a.mag[11] >= 16
    THEN (IF a.neg THEN I32_MIN ELSE I32_MAX)
    ELSE LET m == a.mag
             int == (m[7] \div 32) + (m[8] * 8) + (m[9] * 2048) + (m[10] * 524288)
                        + (m[11] * 134217728)
             whole == (m[7] % 32 = 0) /\ \A i \in 1..6 : m[i] = 0
         IN  IF ~a.neg THEN int ELSE IF whole THEN -int ELSE (-int) - 1

\* utils::f64_from_mantissa(mantissa, 0.0, 1.0), the only bounds it is called
\* with: the f64 of bits 0x3FF0_0000_0000_0000 ^ (mantissa >> 12), minus 1.0
f64_from_mantissa(mantissa) ==
    LET q == Reverse(SubSeq(DivSmallFrom(SubSeq(mantissa, 2, 8), 8, 7, 0), 1, 7))
    IN  Fin(FALSE, <<q[1] - (q[1] % 2)>> \o SubSeq(q, 2, 7) \o Zeros(5))

(***************************************************************************)
(* Points (src/geometry) and the Worley node (src/noise/worley_node.rs).   *)
(* A Point is a sequence of i32, a RealPoint a sequence of f64; a node is  *)
(* [dim, metric, hash_fn, rng, paint_method, overflow_checks], the last    *)
(* field telling whether the build checks integer overflow.                *)
(***************************************************************************)

\* RealPoint::to_lattice_point
to_lattice_point(point) == [d \in 1..Len(point) |-> FloorToI32(point[d])]

\* Point::to_real_point
to_real_point(hypercube) == [d \in 1..Len(hypercube) |-> FromI32(hypercube[d])]

\* Point::as_bytes: the coordinates in memory, each a little-endian i32
as_bytes(hypercube) ==
    LET le(c) == IF c >= 0 THEN FromNat(c, 4)
                 ELSE LET b == FromNat((c + I32_MAX) + 1, 4)
                      IN  <<b[1], b[2], b[3], b[4] + 128>>
    IN  [p \in 1..(4 * Len(hypercube)) |-> le(hypercube[((p - 1) \div 4) + 1])[((p - 1) % 4) + 1]]

\* LatticeNeighborhood::next for current_index = idx with include_self: the
\* neighbour origin + offset, wrapped around where the addition overflows, and
\* whether it overflows
neighbors_and_self(origin, idx) ==
    LET offset == [d \in 1..Len(origin) |-> ((idx % (3 ^ d)) \div (3 ^ (d - 1))) - 1]
        over(d) == \/ origin[d] = I32_MAX /\ offset[d] = 1
                   \/ origin[d] = I32_MIN /\ offset[d] = -1
    IN  [point |-> [d \in 1..Len(origin) |->
                       IF over(d) THEN (IF offset[d] = 1 THEN I32_MIN ELSE I32_MAX)
                       ELSE origin[d] + offset[d]],
         overflowed |-> \E d \in 1..Len(origin) : over(d)]

\* DistanceMetric::hypercube_diagonal_magnitude
hypercube_diagonal_magnitude(metric, dim) ==
    IF metric = "Chebyshev" THEN FromI32(1) ELSE FromI32(dim)

RECURSIVE Reduce(_, _, _, _)
\* the fold of a metric over the coordinates p[i..] from acc
Reduce(metric, p, i, acc) ==
    IF i > Len(p) THEN acc
    ELSE Reduce(metric, p, i + 1,
                IF metric = "Chebyshev"
                THEN (IF partial_cmp(acc, p[i]) = "Greater" THEN acc ELSE p[i])
                ELSE FAdd(acc, p[i]))

\* DistanceMetric::magnitude of ChebyshevMetric (reduce from the first
\* coordinate) and of ManhattanMetric (fold from 0.0) on point.abs()
magnitude(metric, point) ==
    LET abs == [d \in 1..Len(point) |-> [point[d] EXCEPT !.neg = FALSE]]
    IN  IF metric = "Chebyshev" THEN Reduce(metric, abs, 2, abs[1])
        ELSE Reduce(metric, abs, 1, FromI32(0))

\* WorleyNode::new
new(dim, metric, seed_, paint_method, overflow_checks) ==
    [dim |-> dim, metric |-> metric, hash_fn |-> from_seed(seed_),
     rng |-> ChaCha8Rng_from_seed(seed_), paint_method |-> paint_method,
     overflow_checks |-> overflow_checks]

\* hypercube_seed_point leaving the generator where the last call left it
ResetRng_None(rng, hash) == rng

\* rng.set_word_pos(0); rng.set_stream(hash)
ResetRng(rng, hash) == [rng EXCEPT !.pos = 0, !.stream = hash]

RECURSIVE DrawCoordinates(_, _, _)
\* the loop of hypercube_seed_point: one draw for each dimension
DrawCoordinates(real_hypercube, rng, coordinates) ==
    IF Len(coordinates) = Len(real_hypercube) THEN [point |-> coordinates, rng |-> rng]
    ELSE LET place(draw) ==
                 DrawCoordinates(real_hypercube, draw.rng,
                     Append(coordinates,
                            FAdd(real_hypercube[Len(coordinates) + 1],
                                 f64_from_mantissa(draw.value))))
         IN  place(next_u64(rng))

\* WorleyNode::hypercube_seed_point, on the generator rng: the seed point, the
\* hash and the generator it leaves
hypercube_seed_point(self, hypercube, rng) ==
    LET placed(hash, drawn) == [point |-> drawn.point, hash |-> hash, rng |-> drawn.rng]
        seeded(hash) ==
            placed(hash, DrawCoordinates(to_real_point(hypercube), ResetRng(rng, hash), <<>>))
    IN  CHOOSE r \in {seeded(hash) : hash \in {hash_bytes(self.hash_fn, as_bytes(hypercube))}} : TRUE

\* one candidate of value_at: the closure of the map, for neighbour st.idx
CandidateStep(self, origin, point, st) ==
    LET pushed(sp) ==
            [idx |-> st.idx + 1, rng |-> sp.rng, panic |-> FALSE,
             candidates |->
                 Append(st.candidates,
                        [seed_value |-> sp.hash,
                         distance |-> magnitude(self.metric,
                                          [d \in 1..Len(point) |-> FSub(sp.point[d], point[d])])])]
        visit(hypercube) ==
            IF hypercube.overflowed /\ self.overflow_checks THEN [st EXCEPT !.panic = TRUE]
            ELSE pushed(hypercube_seed_point(self, hypercube.point, st.rng))
    IN  visit(neighbors_and_self(origin, st.idx))

RECURSIVE Candidates(_, _, _, _)
Candidates(self, origin, point, st) ==
    IF st.panic \/ st.idx >= 3 ^ Len(origin) THEN st
    ELSE Candidates(self, origin, point, CandidateStep(self, origin, point, st))

RECURSIVE InsertTail_Unstable(_, _)
\* an insertion that moves x in front of the elements it is equal to
InsertTail_Unstable(v, x) ==
    LET shift(last, front) == [front EXCEPT !.sorted = Append(@, last)]
        place(last, ordering) ==
            IF ordering = "None" THEN [v EXCEPT !.panic = TRUE]
            ELSE IF ordering \in {"Less", "Equal"}
            THEN shift(last, InsertTail_Unstable([v EXCEPT !.sorted = SubSeq(@, 1, Len(@) - 1)], x))
            ELSE [v EXCEPT !.sorted = Append(@, x)]
    IN  IF v.panic \/ v.sorted = <<>> THEN [v EXCEPT !.sorted = Append(@, x)]
        ELSE place(v.sorted[Len(v.sorted)],
                   partial_cmp(v.sorted[Len(v.sorted)].distance, x.distance))

RECURSIVE InsertTail(_, _)
\* the insertion of x into the sorted v, as the insertion sort of sort_by does it
\* for the comparison rhs_distance.partial_cmp(&lhs_distance).unwrap(), which
\* panics on None
InsertTail(v, x) ==
    LET shift(last, front) == [front EXCEPT !.sorted = Append(@, last)]
        place(last, ordering) ==
            IF ordering = "None" THEN [v EXCEPT !.panic = TRUE]
            ELSE IF ordering = "Less"
            THEN shift(last, InsertTail([v EXCEPT !.sorted = SubSeq(@, 1, Len(@) - 1)], x))
            ELSE [v EXCEPT !.sorted = Append(@, x)]
    IN  IF v.panic \/ v.sorted = <<>> THEN [v EXCEPT !.sorted = Append(@, x)]
        ELSE place(v.sorted[Len(v.sorted)],
                   partial_cmp(v.sorted[Len(v.sorted)].distance, x.distance))

\* a sort that leaves the vector as it was collected
sort_by_Unsorted(candidates, v) == [v EXCEPT !.sorted = candidates]

RECURSIVE sort_by(_, _)
\* candidates.sort_by(..): a stable sort by descending distance, v the part sorted
sort_by(candidates, v) ==
    IF v.panic \/ Len(v.sorted) = Len(candidates) THEN v
    ELSE sort_by(candidates, InsertTail(v, candidates[Len(v.sorted) + 1]))

\* WorleyNode::value_at: what the call returns, or a panic, the generator it
\* leaves in the node, and its vector of candidates as collected and as sorted
value_at(self, point) ==
    LET painted(c, v, n) ==
            IF v.panic THEN [tag |-> "panic", value |-> NaN, rng |-> c.rng,
                             candidates |-> c.candidates, sorted |-> v.sorted]
            ELSE [tag |-> "ok", candidates |-> c.candidates, sorted |-> v.sorted,
                  value |-> IF self.paint_method = "Value"
                            THEN f64_from_mantissa(v.sorted[n].seed_value)
                            ELSE FDiv(FSub(v.sorted[n - 1].distance, v.sorted[n].distance),
                                      hypercube_diagonal_magnitude(self.metric, self.dim)),
                  rng |-> c.rng]
        sorted(c) == painted(c, sort_by(c.candidates, [panic |-> c.panic, sorted |-> <<>>]),
                             Len(c.candidates))
    IN  sorted(Candidates(self, to_lattice_point(point), point,
                          [idx |-> 0, rng |-> self.rng, panic |-> FALSE, candidates |-> <<>>]))

(***************************************************************************)
(* The Worley node as a state machine: a client builds a node and calls    *)
(* value_at on it, point after point.                                      *)
(***************************************************************************)

NumPoints == 5

\* the coordinates the client uses: 0.5, 1.75, NaN, -0.25, +inf, -inf, 1.0, -0.0
\* and then other multiples of 1/4
Coordinate(k) ==
    CASE k = 1 -> Quarters(FALSE, FromNat(2, 5))
      [] k = 2 -> Quarters(FALSE, FromNat(7, 5))
      [] k = 3 -> NaN
      [] k = 4 -> Quarters(TRUE, FromNat(1, 5))
      [] k = 5 -> Inf(FALSE)
      [] k = 6 -> Inf(TRUE)
      [] k = 7 -> Quarters(FALSE, FromNat(4, 5))
      [] k = 8 -> Quarters(TRUE, FromNat(0, 5))
      [] OTHER -> Quarters(k % 2 = 1, FromNat(k * 37, 5))

\* points with the first coordinate 2^100 or -2^100, finite and far outside of the lattice
HugePoints(dim) ==
    {[d \in 1..dim |-> IF d = 1 THEN Big(neg, 100) ELSE Coordinate(d - 1)] : neg \in BOOLEAN}

PointInputs(dim) ==
    {[d \in 1..dim |-> Coordinate(k + d - 1)] : k \in 1..NumPoints} \cup HugePoints(dim)

NodeInputs ==
    {new(dim, metric, DEFAULT_SEED, paint_method, overflow_checks) :
        dim \in 1..2, metric \in {"Chebyshev", "Manhattan"},
        paint_method \in {"Value", "Distance"}, overflow_checks \in BOOLEAN}

WorleyInit ==
    /\ node \in NodeInputs
    /\ result = NoResult
    /\ OnlyWorley

\* result = node.value_at(point); earlier tells whether value_at had been called
\* before.  A panic ends the run.
ValueAt ==
    /\ result = NoResult \/ result.tag = "ok"
    /\ \E point \in PointInputs(node.dim) :
          \E r \in {value_at(node, point)} :
              /\ result' = [tag |-> r.tag, value |-> r.value, point |-> point,
                            earlier |-> result # NoResult,
                            candidates |-> r.candidates, sorted |-> r.sorted]
              /\ node' = [node EXCEPT !.rng = r.rng]
    /\ UNCHANGED notWorleyVars

WorleyNext == ValueAt

SpecWorley == WorleyInit /\ [][WorleyNext]_vars

(***************************************************************************)
(* The inputs of the codec                                                 *)
(***************************************************************************)

\* how many limb values the seeds are built from
NumLimbPatterns == 3
\* how many positions of a string are edited
NumEditPositions == 3

\* the k-th limb value: zero, the largest u64, 58, then mixed bytes
LimbPattern(k) ==
    CASE k = 1 -> U64(0)
      [] k = 2 -> [i \in 1..8 |-> 255]
      [] k = 3 -> U64(58)
      [] OTHER -> [i \in 1..8 |-> (k * 37 + i * i * 11) % 256]

LimbInputs == {LimbPattern(k) : k \in 1..NumLimbPatterns}

SeedInputs ==
    {x \o y \o z \o w : x \in LimbInputs, y \in LimbInputs, z \in LimbInputs, w \in LimbInputs}
    \cup {DEFAULT_SEED}

\* 44 times 'z', the largest digit
ALL_Z_STR == [i \in 1..STR_LEN |-> 122]

BaseTexts == {MIN_STR, MAX_STR, OVERFLOW_STR, DEFAULT_STR, INVALID_CHAR_STR, ALL_Z_STR}

\* the k-th edited position (0-based string index): the last, the first, the middle ones
EditPosition(k) ==
    CASE k = 1 -> STR_LEN - 1
      [] k = 2 -> 0
      [] k = 3 -> 14
      [] OTHER -> (k * 7) % STR_LEN

EditPositions == {EditPosition(k) : k \in 1..NumEditPositions}

\* what an edit puts in: nothing, '0', 'I', 'O', 'l', 'z', '2', U+00E9 (2 bytes),
\* U+20AC (3 bytes), U+1F600 (4 bytes)
EditInserts ==
    {<<>>, <<48>>, <<73>>, <<79>>, <<108>>, <<122>>, <<50>>, <<233>>, <<8364>>, <<128512>>}

\* s with the n characters from position p (0-based) on replaced by ins
Splice(s, p, n, ins) == SubSeq(s, 1, p) \o ins \o SubSeq(s, p + n + 1, Len(s))

(***************************************************************************)
(* The codec as a state machine: a client holds a Seed or a string and     *)
(* calls to_base58 and from_base58                                         *)
(***************************************************************************)

SeedInit ==
    /\ OnlySeed
    /\ parsed = NoResult
    /\ canonical = NoResult
    /\ \/ /\ phase = "seed"
          /\ seed \in SeedInputs
          /\ text = <<>>
       \/ /\ phase = "text"
          /\ seed = NoSeed
          /\ text \in BaseTexts

\* text = seed.to_base58()
ToBase58 ==
    /\ phase = "seed"
    /\ text' = to_base58(seed)
    /\ phase' = "encoded"
    /\ UNCHANGED <<seed, parsed, canonical, notSeedVars>>

\* the client edits the string it is about to parse
EditText ==
    /\ phase = "text"
    /\ \E p \in EditPositions, n \in 0..2, ins \in EditInserts :
          text' = Splice(text, p, n, ins)
    /\ phase' = "edited"
    /\ UNCHANGED <<seed, parsed, canonical, notSeedVars>>

\* parsed = Seed::from_base58(text)
FromBase58 ==
    /\ phase \in {"encoded", "text", "edited"}
    /\ parsed' = from_base58(text)
    /\ phase' = IF phase = "encoded" THEN "decoded" ELSE "parsed"
    /\ UNCHANGED <<seed, text, canonical, notSeedVars>>

\* canonical = s.to_base58() for the Ok(s) that from_base58 returned
ToBase58Again ==
    /\ phase \in {"decoded", "parsed"}
    /\ parsed.tag = "Ok"
    /\ canonical' = to_base58(parsed.bytes)
    /\ phase' = "reencoded"
    /\ UNCHANGED <<seed, text, parsed, notSeedVars>>

SeedNext == ToBase58 \/ EditText \/ FromBase58 \/ ToBase58Again

SpecSeed == SeedInit /\ [][SeedNext]_vars


(***************************************************************************)
(* LatticeNeighborhood (src/geometry/lattice_neighborhood.rs) as a state   *)
(* machine: a client takes point.neighbors() or point.neighbors_and_self() *)
(* and calls next until it returns None.  An item is Some(point), None, or *)
(* the panic of a build with overflow checks.                              *)
(***************************************************************************)

Panic == [tag |-> "panic"]

\* LatticeNeighborhood::NUM_NEIGHBORS and SELF_INDEX for DIM = dim
NUM_NEIGHBORS(dim) == 3 ^ dim
SELF_INDEX(dim) == NUM_NEIGHBORS(dim) \div 2

\* LatticeNeighborhood::new
LatticeNeighborhood_new(origin, include_self) ==
    [origin |-> origin, include_self |-> include_self, current_index |-> 0]

RECURSIVE LatticeNeighborhood_next(_, _)
\* <LatticeNeighborhood as Iterator>::next: the iterator after the call and the
\* item returned
LatticeNeighborhood_next(self, overflow_checks) ==
    IF self.current_index >= NUM_NEIGHBORS(Len(self.origin))
    THEN [self |-> self, item |-> None]
    ELSE IF ~self.include_self /\ self.current_index = SELF_INDEX(Len(self.origin))
    THEN LatticeNeighborhood_next([self EXCEPT !.current_index = @ + 1], overflow_checks)
    ELSE LET sum(n) ==
                 [self |-> [self EXCEPT !.current_index = @ + 1],
                  item |-> IF n.overflowed /\ overflow_checks THEN Panic ELSE Some(n.point)]
         IN  sum(neighbors_and_self(self.origin, self.current_index))

\* the origins the client starts from, DIM = dim of them each
OriginPatterns ==
    {<<5, 2, 8>>, <<-1, 0, 1>>, <<0, -40, 7>>, <<I32_MAX, 0, I32_MIN>>, <<3, I32_MIN, I32_MAX>>}

OriginInputs == {[d \in 1..dim |-> c[d]] : dim \in 1..3, c \in OriginPatterns}

LatticeInit ==
    /\ neighborhood \in {[iter |-> LatticeNeighborhood_new(origin, include_self),
                          overflow_checks |-> checks] :
                            origin \in OriginInputs, include_self \in BOOLEAN, checks \in BOOLEAN}
    /\ yielded = <<>>
    /\ OnlyLattice

\* item = neighborhood.next(), until the iterator has ended or the program has
\* panicked
LatticeNext ==
    /\ IF yielded = <<>> THEN TRUE ELSE yielded[Len(yielded)].tag = "Some"
    /\ \E r \in {LatticeNeighborhood_next(neighborhood.iter, neighborhood.overflow_checks)} :
          /\ neighborhood' = [neighborhood EXCEPT !.iter = r.self]
          /\ yielded' = Append(yielded, r.item)
    /\ UNCHANGED notLatticeVars

SpecLattice == LatticeInit /\ [][LatticeNext]_vars

(***************************************************************************)
(* VertexNeighborhood (src/geometry/vertex_neighborhood.rs) as a state     *)
(* machine: a client takes point.vertex_neighborhood() and calls next      *)
(* until it returns None.                                                  *)
(***************************************************************************)

\* f64::trunc in the place of f64::floor
f64_floor_Trunc(a) ==
    IF a.k # "fin" THEN a
    ELSE Fin(a.neg, [i \in 1..12 |-> IF i < 7 THEN 0
                                      ELSE IF i = 7 THEN a.mag[7] - (a.mag[7] % 32)
                                      ELSE a.mag[i]])

\* f64::floor
f64_floor(a) ==
    IF a.k # "fin" THEN a
    ELSE LET m == a.mag
             whole == (m[7] % 32 = 0) /\ \A i \in 1..6 : m[i] = 0
             int == [i \in 1..12 |-> IF i < 7 THEN 0 ELSE IF i = 7 THEN m[7] - (m[7] % 32) ELSE m[i]]
         IN  IF whole THEN a
             ELSE IF a.neg THEN Fin(TRUE, SubSeq(AddCarry(int, Pow2(53), 1, 0), 1, 12))
             ELSE Fin(FALSE, int)

\* RealPoint::floor
RealPoint_floor(point) == [d \in 1..Len(point) |-> f64_floor(point[d])]

\* <RealPoint as Add>::add
RealPoint_add(lhs, rhs) == [d \in 1..Len(lhs) |-> FAdd(lhs[d], rhs[d])]

\* VertexNeighborhood::NUM_VERTICES for DIM = dim
NUM_VERTICES(dim) == 2 ^ dim

\* VertexNeighborhood::new
VertexNeighborhood_new(point) == [origin |-> RealPoint_floor(point), current_index |-> 0]

\* a next that starts over once it has returned None
VertexNeighborhood_next_Restart(self) ==
    IF self.current_index >= NUM_VERTICES(Len(self.origin))
    THEN [self |-> [self EXCEPT !.current_index = 0], item |-> None]
    ELSE LET coordinates == [d \in 1..Len(self.origin) |->
                                IF (self.current_index \div (2 ^ (d - 1))) % 2 > 0
                                THEN Fin(FALSE, Pow2(53))
                                ELSE Fin(FALSE, Zeros(12))]
         IN  [self |-> [self EXCEPT !.current_index = @ + 1],
              item |-> Some(RealPoint_add(self.origin, coordinates))]

\* <VertexNeighborhood as Iterator>::next: the iterator after the call and the
\* item returned
VertexNeighborhood_next(self) ==
    IF self.current_index >= NUM_VERTICES(Len(self.origin))
    THEN [self |-> self, item |-> None]
    ELSE LET coordinates == [d \in 1..Len(self.origin) |->
                                IF (self.current_index \div (2 ^ (d - 1))) % 2 > 0
                                THEN Fin(FALSE, Pow2(53))
                                ELSE Fin(FALSE, Zeros(12))]
         IN  [self |-> [self EXCEPT !.current_index = @ + 1],
              item |-> Some(RealPoint_add(self.origin, coordinates))]

\* the points the client asks about, DIM = dim coordinates of each: 1.2, -5.9
\* and 8.5 of the tests, values next to and on whole numbers, and values that
\* are not finite
RealPatterns ==
    {<<Fin(FALSE, <<102, 102, 102, 102, 102, 102, 38, 0, 0, 0, 0, 0>>),
       Fin(TRUE, <<208, 204, 204, 204, 204, 204, 188, 0, 0, 0, 0, 0>>),
       Quarters(FALSE, <<34, 0, 0, 0, 0>>)>>,
     <<Quarters(TRUE, <<1, 0, 0, 0, 0>>), Quarters(FALSE, <<2, 0, 0, 0, 0>>),
       Quarters(TRUE, <<12, 0, 0, 0, 0>>)>>,
     <<Quarters(TRUE, <<0, 0, 0, 0, 0>>), Quarters(FALSE, <<31, 0, 0, 0, 0>>),
       Quarters(TRUE, <<4, 0, 0, 0, 0>>)>>,
     <<Fin(FALSE, <<255, 255, 255, 255, 255, 255, 31, 0, 0, 0, 0, 0>>),
       Fin(TRUE, <<1, 0, 0, 0, 0, 0, 16, 0, 0, 0, 0, 0>>),
       Fin(FALSE, <<0, 0, 96, 102, 102, 102, 22, 72, 232, 1, 0, 0>>)>>,
     <<Fin(TRUE, <<0, 0, 146, 237, 124, 63, 25, 72, 60, 0, 0, 0>>),
       Quarters(FALSE, <<0, 0, 0, 0, 0>>), Quarters(FALSE, <<4, 0, 0, 0, 0>>)>>,
     <<Inf(FALSE), Quarters(FALSE, <<7, 0, 0, 0, 0>>), Inf(TRUE)>>,
     <<Quarters(FALSE, <<8, 0, 0, 0, 0>>), NaN, Quarters(FALSE, <<2, 0, 0, 0, 0>>)>>}

RealInputs == {[d \in 1..dim |-> c[d]] : dim \in 1..3, c \in RealPatterns}

VertexInit ==
    /\ vertices \in {[point |-> point, iter |-> VertexNeighborhood_new(point)] :
                        point \in RealInputs}
    /\ corners = <<>>
    /\ OnlyVertex

\* item = vertices.next(), until the iterator has ended
VertexNext ==
    /\ IF corners = <<>> THEN TRUE ELSE corners[Len(corners)].tag = "Some"
    /\ \E r \in {VertexNeighborhood_next(vertices.iter)} :
          /\ vertices' = [vertices EXCEPT !.iter = r.self]
          /\ corners' = Append(corners, r.item)
    /\ UNCHANGED notVertexVars

SpecVertex == VertexInit /\ [][VertexNext]_vars

(***************************************************************************)
(* Both neighborhoods in the hands of one client, who goes on calling next *)
(* after it has returned None.                                             *)
(***************************************************************************)

\* how often next is called on an iterator that has returned None
MaxCallsAfterNone == 2

NumNones(items) == Cardinality({j \in 1..Len(items) : items[j] = None})

NeighborhoodsInit ==
    /\ neighborhood \in {[iter |-> LatticeNeighborhood_new(origin, include_self),
                          overflow_checks |-> checks] :
                            origin \in OriginInputs, include_self \in BOOLEAN, checks \in BOOLEAN}
    /\ yielded = <<>>
    /\ vertices \in {[point |-> point, iter |-> VertexNeighborhood_new(point)] :
                        point \in RealInputs}
    /\ corners = <<>>
    /\ SeedOff /\ HashOff /\ WorleyOff /\ PerlinOff /\ BitsetOff /\ DiceOff /\ SpanOff

\* item = neighborhood.next() once more, after next has returned None
LatticeNextAfterNone ==
    /\ yielded # <<>>
    /\ yielded[Len(yielded)] = None
    /\ NumNones(yielded) <= MaxCallsAfterNone
    /\ \E r \in {LatticeNeighborhood_next(neighborhood.iter, neighborhood.overflow_checks)} :
          /\ neighborhood' = [neighborhood EXCEPT !.iter = r.self]
          /\ yielded' = Append(yielded, r.item)
    /\ UNCHANGED notLatticeVars

\* item = vertices.next() once more, after next has returned None
VertexNextAfterNone ==
    /\ corners # <<>>
    /\ corners[Len(corners)] = None
    /\ NumNones(corners) <= MaxCallsAfterNone
    /\ \E r \in {VertexNeighborhood_next(vertices.iter)} :
          /\ vertices' = [vertices EXCEPT !.iter = r.self]
          /\ corners' = Append(corners, r.item)
    /\ UNCHANGED notVertexVars

NeighborhoodsNext == LatticeNext \/ LatticeNextAfterNone \/ VertexNext \/ VertexNextAfterNone

SpecNeighborhoods == NeighborhoodsInit /\ [][NeighborhoodsNext]_vars

(***************************************************************************)
(* PerlinNode (src/noise/perlin_node.rs, src/noise/function.rs,            *)
(* src/utils.rs).  The floor of a coordinate, its distance to the floor,   *)
(* the bits that are hashed and the hashes are computed; the products,     *)
(* fused multiply-adds, powers, cosines and square roots are kept as terms *)
(* [op, args] over those values, and a gradient as the term that names its *)
(* table and its index, since the tables GRADIENTS_2D and GRADIENTS_3D and *)
(* gen_gradients are not part of the sources at hand.                      *)
(***************************************************************************)

Op(name, args) == [op |-> name, args |-> args]
IsF64(x) == "k" \in DOMAIN x

\* a - b and a + b, computed where both are numbers
Sub(a, b) == IF IsF64(a) /\ IsF64(b) THEN FSub(a, b) ELSE Op("sub", <<a, b>>)
Add(a, b) == IF IsF64(a) /\ IsF64(b) THEN FAdd(a, b) ELSE Op("add", <<a, b>>)
Mul(a, b) == Op("mul", <<a, b>>)
mul_add(a, b, c) == Op("mul_add", <<a, b, c>>)

\* the f64 of a small whole number or of q / 4
Whole(c) == FromI32(c)
Half == Quarters(FALSE, <<2, 0, 0, 0, 0>>)

\* a magnitude times 2^s and divided by 2^s
ShiftLeft(a, s) ==
    LET b == Zeros(s \div 8) \o a
        k == 2 ^ (s % 8)
    IN  [i \in 1..(Len(b) + 1) |->
            (IF i <= Len(b) THEN (b[i] * k) % 256 ELSE 0)
              + (IF i > 1 THEN (b[i - 1] * k) \div 256 ELSE 0)]
ShiftRight(a, s) ==
    LET b == SubSeq(a, (s \div 8) + 1, Len(a))
        k == 2 ^ (s % 8)
    IN  [i \in 1..Len(b) |->
            (b[i] \div k) + (IF i < Len(b) THEN (b[i + 1] % k) * (256 \div k) ELSE 0)]

\* f64::to_bits, as a u64; NaN is f64::NAN
to_bits(a) ==
    LET sign == IF a.neg THEN 128 ELSE 0
    IN  IF a.k = "nan" THEN <<0, 0, 0, 0, 0, 0, 248, 127>>
        ELSE IF a.k = "inf" THEN <<0, 0, 0, 0, 0, 0, 240, 127 + sign>>
        ELSE IF a.k = "big"
        THEN <<0, 0, 0, 0, 0, 0, ((a.exp + 1023) % 16) * 16, ((a.exp + 1023) \div 16) + sign>>
        ELSE IF IsZero(a.mag) THEN <<0, 0, 0, 0, 0, 0, 0, sign>>
        ELSE LET len == BitLen(a.mag)
                 m == IF len <= 53 THEN ShiftLeft(a.mag, 53 - len)
                      ELSE ShiftRight(a.mag, len - 53)
                 biased == len + 969
             IN  <<m[1], m[2], m[3], m[4], m[5], m[6],
                   (m[7] % 16) + ((biased % 16) * 16), (biased \div 16) + sign>>

\* utils::lerp
lerp(bias, lhs, rhs) == mul_add(Sub(rhs, lhs), bias, lhs)

\* utils::cerp
cerp(bias, lhs, rhs) ==
    mul_add(Sub(rhs, lhs),
            Op("div", <<Sub(Whole(1), Op("cos", <<Mul(bias, Op("PI", <<>>))>>)), Whole(2)>>),
            lhs)

\* utils::smoothstep
smoothstep(x) ==
    Mul(Op("powi3", <<x>>), mul_add(x, mul_add(x, Whole(6), Whole(-15)), Whole(10)))

\* utils::neg_unit_to_unit
neg_unit_to_unit(x) == mul_add(x, Half, Half)

\* function.rs: PERLIN_BIAS_2D and PERLIN_BIAS_3D
PERLIN_BIAS_2D == Op("div", <<Whole(2), Op("SQRT_2", <<>>)>>)
PERLIN_BIAS_3D == Op("1.1547005383792517", <<>>)

\* component `axis` of entry `index` (from 0) of a gradient table
Gradient(table, index, axis) == Op("gradient", <<Op(table, <<>>), Whole(index), Whole(axis)>>)

RECURSIVE Entries(_, _, _)
\* the values f[lo], ..., f[hi] in a sequence
Entries(f, lo, hi) ==
    IF lo = hi THEN <<f[lo]>>
    ELSE Entries(f, lo, (lo + hi) \div 2) \o Entries(f, ((lo + hi) \div 2) + 1, hi)

\* function.rs: vertex_1d
vertex_1d(hash_fn, x) == f64_from_mantissa(hash_1u64(hash_fn, to_bits(x)))

\* function.rs: perlin_1d; v[1] and v[2] are v0 and v1
perlin_1d(hash_fn, point) ==
    LET px == point[1]
        ax0 == f64_floor(px)
        ax1 == FAdd(ax0, Whole(1))
        interpolated(v) == smoothstep(cerp(Sub(px, ax0), v[1], v[2]))
    IN  interpolated([i \in 1..2 |-> vertex_1d(hash_fn, IF i = 1 THEN ax0 ELSE ax1)])

\* function.rs: vertex_2d; hash & 31 is the low five bits of the hash
vertex_2d(hash_fn, ax, ay, nx, ny) ==
    LET dot(index) == Add(Mul(Gradient("GRADIENTS_2D", index, 0), nx),
                          Mul(Gradient("GRADIENTS_2D", index, 1), ny))
        hashed(bits) == hash_2u64(hash_fn, bits[1], bits[2])
    IN  CHOOSE v \in {dot(hashed(bits)[1] % 32) : bits \in {<<to_bits(ax), to_bits(ay)>>}} : TRUE

\* function.rs: perlin_2d; v[1], v[2], v[3], v[4] are v00, v10, v01, v11
perlin_2d(hash_fn, point) ==
    LET px == point[1]
        py == point[2]
        ax0 == f64_floor(px)
        ay0 == f64_floor(py)
        ax1 == FAdd(ax0, Whole(1))
        ay1 == FAdd(ay0, Whole(1))
        nx0 == Sub(px, ax0)
        ny0 == Sub(py, ay0)
        nx1 == Sub(nx0, Whole(1))
        ny1 == Sub(ny0, Whole(1))
        vertex(x1, y1) ==
            vertex_2d(hash_fn, IF x1 THEN ax1 ELSE ax0, IF y1 THEN ay1 ELSE ay0,
                      IF x1 THEN nx1 ELSE nx0, IF y1 THEN ny1 ELSE ny0)
        interpolated(v, sx, sy) ==
            LET vx0 == lerp(sx, v[1], v[2])
                vx1 == lerp(sx, v[3], v[4])
                vxy == lerp(sy, vx0, vx1)
            IN  smoothstep(neg_unit_to_unit(Mul(vxy, PERLIN_BIAS_2D)))
        corner == [i \in 1..4 |-> vertex((i - 1) % 2 = 1, (i - 1) \div 2 = 1)]
    IN  CHOOSE r \in {interpolated(v, smoothstep(nx0), smoothstep(ny0)) :
                         v \in {Entries(corner, 1, 4)}} : TRUE

\* function.rs: vertex_3d; hash.rotate_left(4) & 15 is the top four bits of the
\* hash (usize of 64 bits), and the bits of the coordinates are taken before
\* they are hashed
vertex_3d(hash_fn, ax, ay, az, nx, ny, nz) ==
    LET dot(index) == Add(Add(Mul(Gradient("GRADIENTS_3D", index, 0), nx),
                              Mul(Gradient("GRADIENTS_3D", index, 1), ny)),
                          Mul(Gradient("GRADIENTS_3D", index, 2), nz))
        hashed(bits) == hash_3u64(hash_fn, bits[1], bits[2], bits[3])
    IN  CHOOSE v \in {dot(hashed(bits)[8] \div 16) :
                         bits \in {<<to_bits(ax), to_bits(ay), to_bits(az)>>}} : TRUE

\* function.rs: perlin_3d; v[1], v[2], ..., v[8] are v000, v100, v010, v110,
\* v001, v101, v011, v111
perlin_3d(hash_fn, point) ==
    LET px == point[1]
        py == point[2]
        pz == point[3]
        ax0 == f64_floor(px)
        ay0 == f64_floor(py)
        az0 == f64_floor(pz)
        ax1 == FAdd(ax0, Whole(1))
        ay1 == FAdd(ay0, Whole(1))
        az1 == FAdd(az0, Whole(1))
        nx0 == Sub(px, ax0)
        ny0 == Sub(py, ay0)
        nz0 == Sub(pz, az0)
        nx1 == Sub(nx0, Whole(1))
        ny1 == Sub(ny0, Whole(1))
        nz1 == Sub(nz0, Whole(1))
        vertex(x1, y1, z1) ==
            vertex_3d(hash_fn, IF x1 THEN ax1 ELSE ax0, IF y1 THEN ay1 ELSE ay0,
                      IF z1 THEN az1 ELSE az0, IF x1 THEN nx1 ELSE nx0,
                      IF y1 THEN ny1 ELSE ny0, IF z1 THEN nz1 ELSE nz0)
        interpolated(v, sx, sy, sz) ==
            LET vx00 == lerp(sx, v[1], v[2])
                vx10 == lerp(sx, v[3], v[4])
                vx01 == lerp(sx, v[5], v[6])
                vx11 == lerp(sx, v[7], v[8])
                vxy0 == lerp(sy, vx00, vx10)
                vxy1 == lerp(sy, vx01, vx11)
                vxyz == lerp(sz, vxy0, vxy1)
            IN  smoothstep(neg_unit_to_unit(Mul(vxyz, PERLIN_BIAS_3D)))
        corner == [i \in 1..8 |-> vertex((i - 1) % 2 = 1, ((i - 1) \div 2) % 2 = 1,
                                          (i - 1) \div 4 = 1)]
    IN  CHOOSE r \in {interpolated(v, smoothstep(nx0), smoothstep(ny0), smoothstep(nz0)) :
                         v \in {Entries(corner, 1, 8)}} : TRUE

\* PerlinNode::NUM_GRADIENTS
NUM_GRADIENTS(dim) == 2 ^ (dim + 3)

\* noise::gen_gradients: n gradients of dim coordinates each, named by the seed
\* and their place in the pool
gen_gradients(dim, seed_, n) ==
    [i \in 1..n |->
        [d \in 1..dim |->
            Op("gradient", <<Op("gen_gradients", <<seed_>>), Whole(i - 1), Whole(d - 1)>>)]]

\* PerlinNode::new
PerlinNode_new(dim, seed_) ==
    [dim |-> dim,
     hash_fn |-> from_seed(seed_),
     gradients |-> IF dim < 4 THEN <<>> ELSE gen_gradients(dim, seed_, NUM_GRADIENTS(dim))]

\* PerlinNode::unbias
unbias(dim, x) == Op("div", <<Mul(x, Whole(2)), Op("sqrt", <<Whole(dim)>>)>>)

\* RealPoint::as_bytes on a little-endian target
RECURSIVE RealPoint_as_bytes(_)
RealPoint_as_bytes(point) ==
    IF point = <<>> THEN <<>>
    ELSE to_bits(Head(point)) \o RealPoint_as_bytes(Tail(point))

\* RealPoint::dot_prod
RealPoint_dot_prod(lhs, rhs) == Op("sum", <<[d \in 1..Len(lhs) |-> Mul(lhs[d], rhs[d])]>>)

\* PerlinNode::noise_value_for; NUM_GRADIENTS is a power of two of at most 256
\* here, so hash % NUM_GRADIENTS is taken of the lowest byte of the hash, and
\* an index past the end of the gradients panics
noise_value_for(self, point, vertex) ==
    LET looked_up(index) ==
            IF index >= Len(self.gradients) THEN Panic
            ELSE Some(RealPoint_dot_prod([d \in 1..Len(point) |-> Sub(vertex[d], point[d])],
                                         self.gradients[index + 1]))
    IN  CHOOSE r \in {looked_up(hash_bytes(self.hash_fn, bytes)[1] % NUM_GRADIENTS(self.dim)) :
                         bytes \in {RealPoint_as_bytes(vertex)}} : TRUE

RECURSIVE Collect(_, _)
\* the items of a vertex neighborhood in the order next returns them, after
\* those of acc
Collect(iter, acc) ==
    LET stepped(r) ==
            IF r.item.tag = "None" THEN acc
            ELSE Collect(r.self, Append(acc, r.item.value))
    IN  stepped(VertexNeighborhood_next(iter))

RECURSIVE MapNoise(_, _, _, _, _)
\* noise_value_for of the vertices items[lo..hi], in their order
MapNoise(self, point, items, lo, hi) ==
    IF lo = hi THEN <<noise_value_for(self, point, items[lo])>>
    ELSE MapNoise(self, point, items, lo, (lo + hi) \div 2)
             \o MapNoise(self, point, items, ((lo + hi) \div 2) + 1, hi)

\* point.vertex_neighborhood().map(noise_value_for).collect(): the noise
\* values of the vertices in the order of the vertex neighborhood, or the
\* panic of a vertex that has one
NoiseValues(self, point) ==
    LET gathered(values) ==
            IF \E i \in 1..Len(values) : values[i].tag = "panic" THEN Panic
            ELSE Some([i \in 1..Len(values) |-> values[i].value])
    IN  gathered(MapNoise(self, point, Collect(VertexNeighborhood_new(point), <<>>),
                          1, NUM_VERTICES(Len(point))))

\* a round that pairs entry i with entry i + half of the list
LerpTuples_Halves(bias, noise_values) ==
    [i \in 1..(Len(noise_values) \div 2) |->
        lerp(bias, noise_values[i], noise_values[i + (Len(noise_values) \div 2)])]

\* one round of the loop of the default value_at: neighbours in pairs
LerpTuples(bias, noise_values) ==
    [i \in 1..(Len(noise_values) \div 2) |->
        lerp(bias, noise_values[2 * i - 1], noise_values[2 * i])]

RECURSIVE LerpDims(_, _, _)
LerpDims(smoothed_coordinates, noise_values, dim) ==
    IF dim > Len(smoothed_coordinates) THEN noise_values
    ELSE LerpDims(smoothed_coordinates,
                  LerpTuples(smoothed_coordinates[dim], noise_values), dim + 1)

\* noise_values before the loop `for dim in 0..DIM` and after each of its
\* rounds; every value goes with its corners, the places in the vertex
\* neighborhood of the vertices it was computed from
RECURSIVE LerpRounds(_, _, _)
LerpRounds(smoothed_coordinates, lists, dim) ==
    LET entries == lists[Len(lists)]
        values == LerpTuples(smoothed_coordinates[dim],
                             [i \in 1..Len(entries) |-> entries[i].value])
        round == [i \in 1..Len(values) |->
                     [value |-> values[i],
                      corners |-> entries[(2 * i) - 1].corners \cup entries[2 * i].corners]]
    IN  IF dim > Len(smoothed_coordinates) THEN lists
        ELSE LerpRounds(smoothed_coordinates, Append(lists, round), dim + 1)

\* the lists of the default value_at, none if a vertex panics
PerlinNode_default_rounds(self, point) ==
    LET floor == RealPoint_floor(point)
        smoothed_coordinates ==
            [d \in 1..Len(point) |-> smoothstep(Sub(point[d], floor[d]))]
        traced(values) ==
            IF values.tag = "panic" THEN <<>>
            ELSE LerpRounds(smoothed_coordinates,
                            <<[i \in 1..Len(values.value) |->
                                  [value |-> values.value[i], corners |-> {i - 1}]]>>, 1)
    IN  traced(NoiseValues(self, point))

\* the body of the default NoiseNode::value_at of PerlinNode
PerlinNode_default_value_at(self, point) ==
    LET floor == RealPoint_floor(point)
        smoothed_coordinates ==
            [d \in 1..Len(point) |-> smoothstep(Sub(point[d], floor[d]))]
        collapsed(values) ==
            IF values.tag = "panic" THEN Panic
            ELSE Some(smoothstep(neg_unit_to_unit(
                     unbias(self.dim, LerpDims(smoothed_coordinates, values.value, 1)[1]))))
    IN  collapsed(NoiseValues(self, point))

\* NoiseNode::value_at of PerlinNode as the compiler dispatches it
PerlinNode_value_at(self, point) ==
    CASE self.dim = 1 -> Some(perlin_1d(self.hash_fn, point))
      [] self.dim = 2 -> Some(perlin_2d(self.hash_fn, point))
      [] self.dim = 3 -> Some(perlin_3d(self.hash_fn, point))
      [] OTHER -> PerlinNode_default_value_at(self, point)

(***************************************************************************)
(* PerlinNode as a state machine: a client builds a node of one to four    *)
(* dimensions from a seed and asks it about one point, once through        *)
(* value_at and once through the statements of the default value_at.       *)
(***************************************************************************)

PerlinSeeds == {DEFAULT_SEED, MIN_SEED}

PerlinNodes == {PerlinNode_new(dim, seed_) : dim \in 1..4, seed_ \in PerlinSeeds}

\* the points of RealInputs and the same patterns with a fourth coordinate
PerlinPoints == {[d \in 1..dim |-> c[((d - 1) % 3) + 1]] : dim \in 1..4, c \in RealPatterns}

PerlinInit ==
    /\ perlin \in {c \in [node : PerlinNodes, point : PerlinPoints] :
                      Len(c.point) = c.node.dim}
    /\ noise = [dispatched |-> None, default |-> None, rounds |-> <<>>]
    /\ OnlyPerlin

\* noise.dispatched = perlin.node.value_at(perlin.point)
PerlinValueAt ==
    /\ noise.dispatched = None
    /\ noise' = [noise EXCEPT !.dispatched = PerlinNode_value_at(perlin.node, perlin.point)]
    /\ UNCHANGED <<perlin, notPerlinVars>>

\* the statements of the default value_at on the same node and point
PerlinDefaultValueAt ==
    /\ noise.default = None
    /\ noise' = [noise EXCEPT !.default = PerlinNode_default_value_at(perlin.node, perlin.point),
                              !.rounds = PerlinNode_default_rounds(perlin.node, perlin.point)]
    /\ UNCHANGED <<perlin, notPerlinVars>>

PerlinNext == PerlinValueAt \/ PerlinDefaultValueAt

SpecPerlin == PerlinInit /\ [][PerlinNext]_vars

(***************************************************************************)
(* EnumBitSet (src/collections/enum_bit_set.rs).  A key type T is given by *)
(* its LENGTH and a key by its into_usize(); a set is [key_type, bytes],   *)
(* bytes[idx + 1] being the code's bytes[idx].                             *)
(***************************************************************************)

bit_width(T) == T

byte_width(T) == ((bit_width(T) + 7) - ((bit_width(T) + 7) % 8)) \div 8

TAIL_IDX(T) == byte_width(T) - 1

HAS_PROPER_TAIL(T) == bit_width(T) % 8 > 0

TAIL_MASK(T) == IF HAS_PROPER_TAIL(T) THEN 255 \div (2 ^ (8 - (bit_width(T) % 8))) ELSE 255

\* EnumBitSet::indices_for
indices_for(key) == [byte_idx |-> key \div 8, bit_idx |-> key % 8]

\* EnumBitSet::all
EnumBitSet_all(T) ==
    [key_type |-> T,
     bytes |-> [[idx \in 1..byte_width(T) |-> 255] EXCEPT ![TAIL_IDX(T) + 1] = TAIL_MASK(T)]]

\* EnumBitSet::none
EnumBitSet_none(T) == [key_type |-> T, bytes |-> [idx \in 1..byte_width(T) |-> 0]]

\* EnumBitSet::new
EnumBitSet_new(T, init_state) == IF init_state THEN EnumBitSet_all(T) ELSE EnumBitSet_none(T)

\* EnumBitSet::include
include(self, key) ==
    ByteOp(AndNibble, self.bytes[indices_for(key).byte_idx + 1],
           2 ^ indices_for(key).bit_idx) > 0

\* EnumBitSet::set
set(self, key) ==
    [self EXCEPT !.bytes[indices_for(key).byte_idx + 1] =
                     ByteOp(OrNibble, @, 2 ^ indices_for(key).bit_idx)]

\* EnumBitSet::clear; !(0x01 << bit_idx) is taken on a u8
clear(self, key) ==
    [self EXCEPT !.bytes[indices_for(key).byte_idx + 1] =
                     ByteOp(AndNibble, @, 255 - (2 ^ indices_for(key).bit_idx))]

\* toggle that sets the bit instead
toggle_Set(self, key) ==
    [self EXCEPT !.bytes[indices_for(key).byte_idx + 1] =
                     ByteOp(OrNibble, @, 2 ^ indices_for(key).bit_idx)]

\* EnumBitSet::toggle
toggle(self, key) ==
    [self EXCEPT !.bytes[indices_for(key).byte_idx + 1] =
                     ByteOp(XorNibble, @, 2 ^ indices_for(key).bit_idx)]

\* set_all without the mask on the last byte
set_all_NoMask(self) == [self EXCEPT !.bytes = [idx \in 1..Len(@) |-> 255]]

\* EnumBitSet::set_all
set_all(self) ==
    [self EXCEPT !.bytes = [idx \in 1..Len(@) |->
                               IF idx - 1 < TAIL_IDX(self.key_type) THEN 255
                               ELSE TAIL_MASK(self.key_type)]]

\* EnumBitSet::clear_all
clear_all(self) == [self EXCEPT !.bytes = [idx \in 1..Len(@) |-> 0]]

\* toggle_all that sets the bits of the last byte instead
toggle_all_TailSet(self) ==
    [self EXCEPT !.bytes = [idx \in 1..Len(@) |->
                               IF idx - 1 < TAIL_IDX(self.key_type)
                               THEN ByteOp(XorNibble, @[idx], 255)
                               ELSE ByteOp(OrNibble, @[idx], TAIL_MASK(self.key_type))]]

\* EnumBitSet::toggle_all
toggle_all(self) ==
    [self EXCEPT !.bytes = [idx \in 1..Len(@) |->
                               IF idx - 1 < TAIL_IDX(self.key_type)
                               THEN ByteOp(XorNibble, @[idx], 255)
                               ELSE ByteOp(XorNibble, @[idx], TAIL_MASK(self.key_type))]]

\* all_set that looks for 0xFF in the last byte as well
all_set_FullBytes(self) == \A idx \in 0..TAIL_IDX(self.key_type) : self.bytes[idx + 1] = 255

\* EnumBitSet::all_set
all_set(self) ==
    /\ \A idx \in 0..(TAIL_IDX(self.key_type) - 1) : self.bytes[idx + 1] = 255
    /\ self.bytes[TAIL_IDX(self.key_type) + 1] = TAIL_MASK(self.key_type)

\* EnumBitSet::none_set
none_set(self) == \A idx \in 0..TAIL_IDX(self.key_type) : self.bytes[idx + 1] = 0

\* bitand with | for &
bitand_Or(self, rhs) ==
    [self EXCEPT !.bytes = [idx \in 1..Len(@) |-> ByteOp(OrNibble, @[idx], rhs.bytes[idx])]]

\* <EnumBitSet as BitAnd>::bitand and <EnumBitSet as BitAndAssign>::bitand_assign
bitand(self, rhs) ==
    [self EXCEPT !.bytes = [idx \in 1..Len(@) |-> ByteOp(AndNibble, @[idx], rhs.bytes[idx])]]
bitand_assign(self, rhs) ==
    [self EXCEPT !.bytes = [idx \in 1..Len(@) |-> ByteOp(AndNibble, @[idx], rhs.bytes[idx])]]

\* <EnumBitSet as BitOr>::bitor and <EnumBitSet as BitOrAssign>::bitor_assign
bitor(self, rhs) ==
    [self EXCEPT !.bytes = [idx \in 1..Len(@) |-> ByteOp(OrNibble, @[idx], rhs.bytes[idx])]]
bitor_assign(self, rhs) ==
    [self EXCEPT !.bytes = [idx \in 1..Len(@) |-> ByteOp(OrNibble, @[idx], rhs.bytes[idx])]]

\* <EnumBitSet as BitXor>::bitxor and <EnumBitSet as BitXorAssign>::bitxor_assign
bitxor(self, rhs) ==
    [self EXCEPT !.bytes = [idx \in 1..Len(@) |-> ByteOp(XorNibble, @[idx], rhs.bytes[idx])]]
bitxor_assign(self, rhs) ==
    [self EXCEPT !.bytes = [idx \in 1..Len(@) |-> ByteOp(XorNibble, @[idx], rhs.bytes[idx])]]

\* not that flips every bit of every byte
not_EveryBit(self) == [self EXCEPT !.bytes = [idx \in 1..Len(@) |-> ByteOp(XorNibble, @[idx], 255)]]

\* <EnumBitSet as Not>::not
not(self) == toggle_all(self)

\* <EnumBitSet as PartialEq>::eq, derived: the byte arrays are equal
eq(self, other) == self.bytes = other.bytes

\* enum_bit_set![keys; val], the arm with a list of keys
RECURSIVE ToggleKeys(_, _)
ToggleKeys(bit_set, keys) ==
    IF keys = <<>> THEN bit_set
    ELSE ToggleKeys(toggle(bit_set, Head(keys)), Tail(keys))

enum_bit_set(T, keys, val) == ToggleKeys(EnumBitSet_new(T, ~val), keys)

(***************************************************************************)
(* EnumBitSet as a state machine: a client holds two sets x and y over one *)
(* key type and calls the operations of the type on x, with y as the right *)
(* operand.  Every call is recorded with the sets before it, x after it    *)
(* and what it returned.                                                   *)
(***************************************************************************)

MaxBitOps == 2

\* the LENGTH of the key types: Enum1, Enum2 and Enum3 of the tests
KeyTypes == {6, 8, 11}

Keys(T) == 0..(T - 1)

\* the keys the client passes: the first and the last of the type and the
\* last of the first byte
KeysUsed(T) == {0, 7, T - 1} \cap Keys(T)

\* the key lists the client writes in the macro, two of them naming a key twice
KeyLists(T) ==
    {<<>>, <<0>>, <<T - 1, 0>>, <<0, T - 1, 0>>, <<T - 1, T - 1>>}

BitsetInit ==
    /\ bitset \in {[x |-> enum_bit_set(T, <<0, T - 1>>, TRUE),
                    y |-> enum_bit_set(T, <<T - 1, T \div 2>>, val)] :
                      T \in KeyTypes, val \in BOOLEAN}
    /\ calls = <<>>
    /\ OnlyBitset

\* the record of a call that leaves `after` in x and returns `out`
Called(op, arg, after, out) ==
    /\ Len(calls) < MaxBitOps
    /\ bitset' = [bitset EXCEPT !.x = after]
    /\ calls' = Append(calls, [op |-> op, arg |-> arg, x |-> bitset.x, y |-> bitset.y,
                               after |-> after, out |-> out])
    /\ UNCHANGED notBitsetVars

\* x = EnumBitSet::new(init_state)
BitsetNew ==
    \E init_state \in BOOLEAN :
        Called("new", init_state, EnumBitSet_new(bitset.x.key_type, init_state), None)

\* x = EnumBitSet::all() and x = EnumBitSet::none()
BitsetAll == Called("all", None, EnumBitSet_all(bitset.x.key_type), None)
BitsetNone == Called("none", None, EnumBitSet_none(bitset.x.key_type), None)

\* x = enum_bit_set![keys; val]
BitsetMacro ==
    \E keys \in KeyLists(bitset.x.key_type), val \in BOOLEAN :
        Called("enum_bit_set", [keys |-> keys, val |-> val],
               enum_bit_set(bitset.x.key_type, keys, val), None)

\* x.include(key)
BitsetInclude ==
    \E key \in KeysUsed(bitset.x.key_type) :
        Called("include", key, bitset.x, include(bitset.x, key))

\* x.set(key), x.clear(key), x.toggle(key)
BitsetSet ==
    \E key \in KeysUsed(bitset.x.key_type) : Called("set", key, set(bitset.x, key), None)
BitsetClear ==
    \E key \in KeysUsed(bitset.x.key_type) : Called("clear", key, clear(bitset.x, key), None)
BitsetToggle ==
    \E key \in KeysUsed(bitset.x.key_type) : Called("toggle", key, toggle(bitset.x, key), None)

\* x.set_all(), x.clear_all(), x.toggle_all()
BitsetSetAll == Called("set_all", None, set_all(bitset.x), None)
BitsetClearAll == Called("clear_all", None, clear_all(bitset.x), None)
BitsetToggleAll == Called("toggle_all", None, toggle_all(bitset.x), None)

\* x.all_set(), x.none_set()
BitsetAllSet == Called("all_set", None, bitset.x, all_set(bitset.x))
BitsetNoneSet == Called("none_set", None, bitset.x, none_set(bitset.x))

\* x & y, x | y, x ^ y: the operands are copied into the call
BitsetAnd == Called("bitand", None, bitset.x, bitand(bitset.x, bitset.y))
BitsetOr == Called("bitor", None, bitset.x, bitor(bitset.x, bitset.y))
BitsetXor == Called("bitxor", None, bitset.x, bitxor(bitset.x, bitset.y))

\* x = !x
BitsetNot == Called("not", None, not(bitset.x), not(bitset.x))

\* x &= y, x |= y, x ^= y
BitsetAndAssign == Called("bitand_assign", None, bitand_assign(bitset.x, bitset.y), None)
BitsetOrAssign == Called("bitor_assign", None, bitor_assign(bitset.x, bitset.y), None)
BitsetXorAssign == Called("bitxor_assign", None, bitxor_assign(bitset.x, bitset.y), None)

\* x == other, for other y, all() and none()
BitsetEq ==
    \E other \in {bitset.y, EnumBitSet_all(bitset.x.key_type), EnumBitSet_none(bitset.x.key_type)} :
        Called("eq", other, bitset.x, eq(bitset.x, other))

BitsetNext ==
    \/ BitsetNew \/ BitsetAll \/ BitsetNone \/ BitsetMacro
    \/ BitsetInclude \/ BitsetSet \/ BitsetClear \/ BitsetToggle
    \/ BitsetSetAll \/ BitsetClearAll \/ BitsetToggleAll
    \/ BitsetAllSet \/ BitsetNoneSet
    \/ BitsetAnd \/ BitsetOr \/ BitsetXor \/ BitsetNot
    \/ BitsetAndAssign \/ BitsetOrAssign \/ BitsetXorAssign
    \/ BitsetEq

SpecBitset == BitsetInit /\ [][BitsetNext]_vars

(***************************************************************************)
(* ExtendedRng (src/random/extended_rng.rs): the explodable rolls, with T  *)
(* = u8.  A range is [start, end, inclusive]; what the generator returns   *)
(* for a draw is any value of the range, and drawing from an empty range   *)
(* panics in the sampler.  A call is followed one loop iteration at a      *)
(* time; it is [fn, num_rolls, range, target, depth, overflow_checks] for  *)
(* the arguments and the build, and max_depth, total, local_total,         *)
(* local_num_rolls, rounds, status and result for where it stands.         *)
(***************************************************************************)

T_MAX == 255

\* SampleExtendedRngRange::is_empty
is_empty(range) ==
    IF range.inclusive THEN ~(range.start <= range.end) ELSE ~(range.start < range.end)

\* SampleExtendedRngRange::max_value: self.end - T::one() of a Range panics
\* for an end of 0 where the build checks overflow and wraps where it does not
max_value(range, overflow_checks) ==
    IF range.inclusive THEN Some(range.end)
    ELSE IF range.end >= 1 THEN Some(range.end - 1)
    ELSE IF overflow_checks THEN Panic
    ELSE Some(T_MAX)

\* what sample_single can return, of a range that is not empty
RangeValues(range) ==
    IF range.inclusive THEN range.start..range.end ELSE range.start..(range.end - 1)

\* SampleExtendedRngRange::sample_explosion, for the value the sampler returned
sample_explosion(sampled, target) ==
    IF sampled >= target THEN [tag |-> "Hit", value |-> sampled]
    ELSE [tag |-> "Miss", value |-> sampled]

\* a + b and a += b on T: a panic where the build checks overflow, the wrapped
\* sum where it does not
AddT(a, b, overflow_checks) ==
    IF a + b <= T_MAX THEN Some(a + b)
    ELSE IF overflow_checks THEN Panic
    ELSE Some((a + b) % (T_MAX + 1))

\* a call that returns and a call that panics
Return(self, value) == [self EXCEPT !.status = "returned", !.result = value]
Panicked(self) == [self EXCEPT !.status = "panicked"]

\* gen_explodable_range that goes on after a miss
explode_iteration_NoMiss(self, roll) ==
    LET added(sum) ==
            IF sum.tag = "panic" THEN Panicked(self)
            ELSE IF self.max_depth = 0 THEN Return(self, sum.value)
            ELSE [self EXCEPT !.total = sum.value, !.max_depth = @ - 1]
    IN  added(AddT(self.total, roll, self.overflow_checks))

\* ExtendedRng::gen_explodable_range: one iteration of its loop, the sampler
\* having returned roll
explode_iteration(self, roll) ==
    LET matched(explosion, sum) ==
            IF sum.tag = "panic" THEN Panicked(self)
            ELSE IF explosion.tag = "Hit"
            THEN IF self.max_depth = 0 THEN Return(self, sum.value)
                 ELSE [self EXCEPT !.total = sum.value, !.max_depth = @ - 1]
            ELSE Return(self, sum.value)
    IN  matched(sample_explosion(roll, self.target),
                AddT(self.total, roll, self.overflow_checks))

\* ExtendedRng::multi_gen_explodable_range: one iteration of the inner loop
multi_roll(self, roll) ==
    LET added(sum) ==
            IF sum.tag = "panic" THEN Panicked(self)
            ELSE [self EXCEPT !.local_total = sum.value, !.local_num_rolls = @ - 1]
    IN  added(AddT(self.local_total, roll, self.overflow_checks))

\* the end of a round that goes on whatever the round summed to
multi_round_end_NoTarget(self) ==
    LET added(sum) ==
            IF sum.tag = "panic" THEN Panicked(self)
            ELSE IF self.max_depth = 0
            THEN Return([self EXCEPT !.total = sum.value, !.rounds = @ + 1], sum.value)
            ELSE [self EXCEPT !.total = sum.value, !.rounds = @ + 1, !.max_depth = @ - 1,
                              !.local_total = 0, !.local_num_rolls = self.num_rolls]
    IN  added(AddT(self.total, self.local_total, self.overflow_checks))

\* ExtendedRng::multi_gen_explodable_range: the end of a round, from
\* `total += local_total` to the start of the next round or the return
multi_round_end(self) ==
    LET added(sum) ==
            IF sum.tag = "panic" THEN Panicked(self)
            ELSE IF self.max_depth = 0 \/ self.local_total < self.target
            THEN Return([self EXCEPT !.total = sum.value, !.rounds = @ + 1], sum.value)
            ELSE [self EXCEPT !.total = sum.value, !.rounds = @ + 1, !.max_depth = @ - 1,
                              !.local_total = 0, !.local_num_rolls = self.num_rolls]
    IN  added(AddT(self.total, self.local_total, self.overflow_checks))

(***************************************************************************)
(* The rolls as a state machine: a client makes one call and the call runs *)
(* to its return or its panic.                                             *)
(***************************************************************************)

MaxDepth == 2

Range(start, end) == [start |-> start, end |-> end, inclusive |-> FALSE]
RangeInclusive(start, end) == [start |-> start, end |-> end, inclusive |-> TRUE]

\* a call as it starts
Call(fn, num_rolls, range, target, depth, overflow_checks) ==
    [fn |-> fn, num_rolls |-> num_rolls, range |-> range, target |-> target,
     depth |-> depth, overflow_checks |-> overflow_checks,
     max_depth |-> depth, total |-> 0, local_total |-> 0, local_num_rolls |-> num_rolls,
     rounds |-> 0, status |-> "running", result |-> 0]

\* 1..=6 with the targets of the tests, 100..=102 whose sums leave u8, and
\* empty ranges
ExplodeCalls ==
    {Call("gen_explodable_range", 1, range, target, depth, overflow_checks) :
        range \in {RangeInclusive(1, 6), Range(1, 7), RangeInclusive(100, 102),
                   RangeInclusive(5, 4), Range(5, 5)},
        target \in {4, 6, 101}, depth \in 0..MaxDepth, overflow_checks \in BOOLEAN}

\* 1..3 and 100..=101 in rounds of no, one or two rolls
MultiCalls ==
    {Call("multi_gen_explodable_range", num_rolls, range, target, depth, overflow_checks) :
        num_rolls \in 0..2, range \in {Range(1, 3), RangeInclusive(100, 101), Range(5, 5)},
        target \in {0, 2, 3, 101}, depth \in 0..MaxDepth, overflow_checks \in BOOLEAN}

DiceInit ==
    /\ dice \in ExplodeCalls \cup MultiCalls
    /\ rolls = <<>>
    /\ OnlyDice

\* range.sample_explosion(self, target) and the match on it
ExplodeRoll ==
    /\ dice.fn = "gen_explodable_range"
    /\ dice.status = "running"
    /\ IF is_empty(dice.range)
       THEN dice' = Panicked(dice) /\ rolls' = rolls
       ELSE \E roll \in RangeValues(dice.range) :
                /\ dice' = explode_iteration(dice, roll)
                /\ rolls' = Append(rolls, roll)
    /\ UNCHANGED notDiceVars

\* local_total += range.sample_single(self); local_num_rolls -= 1
MultiRoll ==
    /\ dice.fn = "multi_gen_explodable_range"
    /\ dice.status = "running"
    /\ dice.local_num_rolls > 0
    /\ IF is_empty(dice.range)
       THEN dice' = Panicked(dice) /\ rolls' = rolls
       ELSE \E roll \in RangeValues(dice.range) :
                /\ dice' = multi_roll(dice, roll)
                /\ rolls' = Append(rolls, roll)
    /\ UNCHANGED notDiceVars

\* the inner loop is over: total += local_total, then the break or the next round
MultiRoundEnd ==
    /\ dice.fn = "multi_gen_explodable_range"
    /\ dice.status = "running"
    /\ dice.local_num_rolls = 0
    /\ dice' = multi_round_end(dice)
    /\ rolls' = rolls
    /\ UNCHANGED notDiceVars

DiceNext == ExplodeRoll \/ MultiRoll \/ MultiRoundEnd

\* a call that has started goes on until it returns or panics
SpecDice == DiceInit /\ [][DiceNext]_vars /\ WF_vars(DiceNext)

(***************************************************************************)
(* Wyhash::hash_bytes, one loop pass at a time.  The client hashes the     *)
(* first n bytes of the tests' 0x00, 0x01, ... with the tests' hasher; the *)
(* call records every read of the span it makes.  A read outside of the    *)
(* span is the panic of the slice index or of byteorder's read.            *)
(***************************************************************************)

MaxSpan == 120

\* tests::hash_bytes, &bytes[0..n]
TestBytes(n) == [b \in 1..n |-> (b - 1) % 256]

Read(at, width) == [at |-> at, width |-> width]

\* bytes[at..] holds the width bytes that are read
InSpan(bytes, at, width) == at >= 0 /\ at + width <= Len(bytes)

AllInSpan(bytes, rs) == \A i \in 1..Len(rs) : InSpan(bytes, rs[i].at, rs[i].width)

\* the reads of the `len <= 16` branch
ShortReads(len) ==
    IF len >= 4
    THEN LET offset_1 == (len \div 8) * 4
             offset_2 == len - 4
             offset_3 == offset_2 - offset_1
         IN  <<Read(0, 4), Read(offset_1, 4), Read(offset_2, 4), Read(offset_3, 4)>>
    ELSE IF len > 0
    THEN <<Read(0, 1), Read(len \div 2, 1), Read(len - 1, 1)>>
    ELSE <<>>

\* the read of one pass of `while remaining >= 48`: the six words of bytes[offset..(offset + 48)]
BulkReads(st) == <<Read(st.offset, 48)>>

\* the reads of one pass of `while remaining > 16`
TailReads(st) == <<Read(st.offset, 8), Read(st.offset + 8, 8)>>

\* the two reads, taken from remaining alone
FinishReads_NoOffset(st) == <<Read(st.remaining - 16, 8), Read(st.remaining - 8, 8)>>

\* the two reads after the loops
FinishReads(st) ==
    <<Read(st.offset + st.remaining - 16, 8), Read(st.offset + st.remaining - 8, 8)>>

SpanInit ==
    /\ span \in {[self |-> build_wyhash(U64(0)), bytes |-> TestBytes(n), pc |-> "enter",
                  st |-> NoResult, bulk |-> 0, tail |-> 0, folds |-> 0,
                  finish |-> NoResult, out |-> NoResult] : n \in 0..MaxSpan}
    /\ reads = <<>>
    /\ OnlySpan

\* a step that makes the reads rs: it panics unless they lie inside the span
Stepped(rs, after) ==
    /\ reads' = reads \o rs
    /\ span' = IF AllInSpan(span.bytes, rs) THEN after ELSE [span EXCEPT !.pc = "panic"]
    /\ UNCHANGED notSpanVars

\* the `len <= 16` branch, and finish
SpanShort ==
    /\ span.pc = "enter"
    /\ Len(span.bytes) <= 16
    /\ Stepped(ShortReads(Len(span.bytes)),
               [span EXCEPT !.pc = "done", !.out = hash_bytes(span.self, span.bytes)])

\* the start of the else branch: remaining = len, offset = 0, and the three seeds
SpanLong ==
    /\ span.pc = "enter"
    /\ Len(span.bytes) > 16
    /\ Stepped(<<>>,
               [span EXCEPT !.pc = IF Len(span.bytes) >= 48 THEN "bulk" ELSE "tail",
                            !.st = [seed |-> span.self.seed, seed_1 |-> span.self.seed,
                                    seed_2 |-> span.self.seed,
                                    remaining |-> Len(span.bytes), offset |-> 0]])

\* one pass of `while remaining >= 48`
SpanBulk ==
    /\ span.pc = "bulk"
    /\ span.st.remaining >= 48
    /\ Stepped(BulkReads(span.st),
               [span EXCEPT !.st = BulkStep(span.self, span.bytes, span.st), !.bulk = @ + 1])

\* the end of the `if len >= 48` block: seed ^= seed_1; seed ^= seed_2
SpanFold ==
    /\ span.pc = "bulk"
    /\ span.st.remaining < 48
    /\ Stepped(<<>>,
               [span EXCEPT !.pc = "tail",
                            !.st.seed = Xor64(Xor64(span.st.seed, span.st.seed_1), span.st.seed_2),
                            !.folds = @ + 1])

\* one pass of `while remaining > 16`
SpanTail ==
    /\ span.pc = "tail"
    /\ span.st.remaining > 16
    /\ Stepped(TailReads(span.st),
               [span EXCEPT !.st = TailStep(span.self, span.bytes, span.st), !.tail = @ + 1])

\* the two reads after the loops, and finish
SpanFinish ==
    /\ span.pc = "tail"
    /\ span.st.remaining <= 16
    /\ LET rs == FinishReads(span.st)
           lhs == read_u64(span.bytes, rs[1].at)
           rhs == read_u64(span.bytes, rs[2].at)
       IN  Stepped(rs,
                   [span EXCEPT !.pc = "done",
                                !.finish = [lhs |-> lhs, rhs |-> rhs, seed |-> span.st.seed,
                                            len |-> Len(span.bytes)],
                                !.out = finish(span.self, lhs, rhs, span.st.seed, Len(span.bytes))])

SpanNext == SpanShort \/ SpanLong \/ SpanBulk \/ SpanFold \/ SpanTail \/ SpanFinish

SpecSpan == SpanInit /\ [][SpanNext]_vars

(***************************************************************************)
(* What the codec is meant to compute, stated without limbs                *)
(***************************************************************************)

\* the base-58 alphabet of the text format:
\* 123456789ABCDEFGHJKLMNPQRSTUVWXYZabcdefghijkmnopqrstuvwxyz
ALPHABET ==
    <<49, 50, 51, 52, 53, 54, 55, 56, 57, 65, 66, 67, 68, 69, 70, 71, 72, 74, 75, 76, 77, 78,
    80, 81, 82, 83, 84, 85, 86, 87, 88, 89, 90, 97, 98, 99, 100, 101, 102, 103, 104, 105, 106,
    107, 109, 110, 111, 112, 113, 114, 115, 116, 117, 118, 119, 120, 121, 122>>

AlphabetSet == {ALPHABET[i] : i \in 1..Len(ALPHABET)}

\* the digit a character of the alphabet stands for: its place in the alphabet
DigitOf(c) == CHOOSE d \in 0..57 : ALPHABET[d + 1] = c

\* a string of exactly 44 characters, all of the alphabet
IsBase58Text(s) == Len(s) = STR_LEN /\ \A i \in 1..Len(s) : s[i] \in AlphabetSet

RECURSIVE HornerFrom(_, _, _)
\* acc * 58^k + the number the characters of s from place i on spell, most
\* significant digit first, as a 33-byte integer (58^44 < 2^264)
HornerFrom(s, i, acc) ==
    IF acc[1] < 0 \/ i > Len(s) THEN acc
    ELSE HornerFrom(s, i + 1, SubSeq(MulSmallCarry(acc, 58, 1, DigitOf(s[i])), 1, 33))

\* sum(digit_i * 58^i) of a string of the alphabet, 33 bytes wide
ValueOfText(s) == HornerFrom(s, 1, Zeros(33))

\* the 256-bit number of a Seed's 32 bytes, least significant byte first, 33 bytes wide
ValueOfSeed(bytes) == bytes \o <<0>>

\* the division of the whole 256-bit number by 58
WholeDiv58(bytes) ==
    LET qr == DivSmallFrom(bytes, 58, NUM_BYTES, 0)
    IN  [q |-> Reverse(SubSeq(qr, 1, NUM_BYTES)), r |-> qr[NUM_BYTES + 1]]

HasInvalidChar(s) == \E i \in 1..Len(s) : s[i] \notin AlphabetSet

(***************************************************************************)
(* The claims about the codec, checked under SpecSeed                      *)
(***************************************************************************)

\* C1: decoding the encoding of a Seed gives Ok of the same 32 bytes:
\* Seed::from_base58(s.to_base58()) = Ok(s).
C1_RoundTrip == phase = "decoded" => parsed = OkSeed(seed)

C1_Witness == phase = "decoded" /\ seed = MAX_SEED /\ parsed.tag = "Ok"

\* C2: on a string of 44 characters of the alphabet, from_base58 returns
\* Err(Overflow) exactly when sum(digit_i * 58^i) >= 2^256, and otherwise Ok of the
\* seed whose limbs hold exactly that number.
C2_OverflowIffTooLarge ==
    (phase \in {"decoded", "parsed"} /\ IsBase58Text(text)) =>
        LET v == ValueOfText(text)
        IN  IF v[33] > 0 THEN parsed = ErrOverflow
            ELSE parsed = OkSeed(SubSeq(v, 1, NUM_BYTES))

C2_Witness == phase = "parsed" /\ text = OVERFLOW_STR /\ parsed = ErrOverflow

\* C3: an input with a character outside the alphabet yields InvalidCharacter whose
\* index is the position of that character in the input and whose character is the
\* character found there (inputs rejected for their length set aside).
C3_InvalidCharacterAtItsIndex ==
    (phase = "parsed" /\ HasInvalidChar(text) /\ parsed.tag # "InvalidLength") =>
        /\ parsed.tag = "InvalidCharacter"
        /\ parsed.index \in 0..(Len(text) - 1)
        /\ text[parsed.index + 1] = parsed.character
        /\ parsed.character \notin AlphabetSet

\* C4: from_base58 returns InvalidLength exactly for the inputs that are not 44
\* characters long.
C4_InvalidLengthIffNot44Chars ==
    phase = "parsed" => (parsed.tag = "InvalidLength" <=> Len(text) # STR_LEN)

\* C5: to_base58 returns exactly 44 characters of the alphabet, the leading places a
\* short number leaves free filled with '1': a number below 2^192, 2^128 or 2^64 has
\* at most 33, 22 or 11 digits, and the all-zero seed encodes as 44 times '1'.
C5_Encoding44Padded ==
    phase \in {"encoded", "decoded"} =>
        /\ IsBase58Text(text)
        /\ IsZero(read_u64(seed, 24)) => \A i \in 1..11 : text[i] = 49
        /\ IsZero(SubSeq(seed, 17, 32)) => \A i \in 1..22 : text[i] = 49
        /\ IsZero(SubSeq(seed, 9, 32)) => \A i \in 1..33 : text[i] = 49
        /\ seed = MIN_SEED => text = MIN_STR

C5_Witness ==
    /\ phase = "encoded"
    /\ IsZero(SubSeq(seed, 9, 32))
    /\ ~IsZero(seed)
    /\ text[34] # 49

\* C6: the characters of to_base58, left to right, are the base-58 digits, most
\* significant first, of the number the 32 bytes form in little-endian order, and
\* the division through the four limbs is the division of the whole number by 58.
C6_DigitsOfTheNumber ==
    phase \in {"encoded", "decoded"} =>
        /\ IsBase58Text(text)
        /\ ValueOfText(text) = ValueOfSeed(seed)
        /\ LET d == DivLimbs58(read_u64(seed, 0), read_u64(seed, 8),
                               read_u64(seed, 16), read_u64(seed, 24))
               whole == WholeDiv58(seed)
           IN  d.mx \o d.my \o d.mz \o d.mw = whole.q /\ d.rem = whole.r

C6_Witness == phase = "encoded" /\ seed = DEFAULT_SEED /\ text = DEFAULT_STR

(***************************************************************************)
(* The claims about Wyhash, checked under SpecHash                         *)
(***************************************************************************)

\* the byte span the tests hash: the little-endian bytes of the arguments, in order
SpanOf(a) ==
    [p \in 1..(Len(a) * Len(a[1])) |->
        a[((p - 1) \div Len(a[1])) + 1][((p - 1) % Len(a[1])) + 1]]

\* C7: each fixed-arity hasher returns what hash_bytes returns, on the same
\* instance, for the little-endian bytes of its arguments in order
C7_FixedArityEqualsHashBytes ==
    call.fn \in FixedArity =>
        call.out = hash_bytes(hashers[call.who].self, SpanOf(call.args))

\* hash_4u64 has hashed its 32-byte span, on an instance built by from_rng
C7_Witness ==
    /\ call.fn = "hash_4u64"
    /\ Len(SpanOf(call.args)) = 32
    /\ hashers[call.who].seed = NoSeed
    /\ call.out = hash_bytes(hashers[call.who].self, SpanOf(call.args))

\* the instances i and j were both built by from_seed, from equal Seeds
BuiltFromEqualSeeds(i, j) ==
    /\ hashers[i] # NoHasher
    /\ hashers[j] # NoHasher
    /\ hashers[i].seed # NoSeed
    /\ hashers[j].seed = hashers[i].seed

NewNode == [node EXCEPT !.rng = ChaCha8Rng_from_seed(node.rng.key)]

\* C9: whatever value_at calls came before, value_at returns for a point what
\* it returns for that point on the node as new built it
C9_ValueAtIgnoresEarlierCalls ==
    result # NoResult =>
        \A r \in {value_at(NewNode, result.point)} :
            result.tag = r.tag /\ result.value = r.value

\* value_at has returned a finite value for a point after an earlier call that
\* left the generator of the node on another stream and off word 0
C9_Witness ==
    /\ result # NoResult
    /\ result.tag = "ok"
    /\ result.earlier
    /\ result.value.k = "fin"
    /\ node.paint_method = "Distance"
    /\ node.rng.pos = 2 * node.dim
    /\ node.rng.stream # U64(0)

\* C10: value_at returns a value, for every point
C10_ValueAtNeverPanics == result # NoResult => result.tag = "ok"

(***************************************************************************)
(* The claims about LatticeNeighborhood, checked under SpecLattice         *)
(***************************************************************************)

\* offset(i) of the enumeration: digit d of i in base 3, less one, with the
\* first dimension the least significant digit
Offset(i, dim) == [d \in 1..dim |-> ((i \div (3 ^ (d - 1))) % 3) - 1]

\* the index of the j-th point yielded: the indices in increasing order, less
\* the centre index (3^dim - 1) / 2 when the origin is left out
YieldIndex(j, dim, include_self) ==
    IF include_self \/ j - 1 < ((3 ^ dim) - 1) \div 2 THEN j - 1 ELSE j

\* v = a + o for an offset o of -1, 0 or 1, told without leaving the 32-bit
\* integers: the sum of an i32 and o that is no i32 is not equal to any v
IsSum(v, a, o) ==
    CASE o = 0 -> v = a
      [] o = 1 -> a # I32_MAX /\ v = a + 1
      [] o = -1 -> a # I32_MIN /\ v = a - 1

\* C11: the iterator yields origin + offset(i) for i = 0 .. 3^DIM - 1 in
\* increasing order, all of them with include_self and all but the centre index
\* without it, then None; the points yielded are distinct
C11_LatticeEnumeration ==
    neighborhood # NoResult =>
        LET origin == neighborhood.iter.origin
            dim == Len(origin)
            include_self == neighborhood.iter.include_self
            total == IF include_self THEN 3 ^ dim ELSE (3 ^ dim) - 1
        IN  /\ Len(yielded) <= total + 1
            /\ \A j \in 1..Len(yielded) :
                  IF j <= total
                  THEN /\ yielded[j].tag = "Some"
                       /\ \A d \in 1..dim :
                             IsSum(yielded[j].value[d], origin[d],
                                   Offset(YieldIndex(j, dim, include_self), dim)[d])
                  ELSE yielded[j] = None
            /\ \A j, k \in 1..Len(yielded) :
                  j < k /\ k <= total => yielded[j] # yielded[k]

(***************************************************************************)
(* The claims about VertexNeighborhood, checked under SpecVertex           *)
(***************************************************************************)

\* a == b on f64
FEq(a, b) ==
    /\ a.k # "nan" /\ b.k # "nan"
    /\ \/ a = b
       \/ a.k = "fin" /\ b.k = "fin" /\ IsZero(a.mag) /\ IsZero(b.mag)

\* v is the whole number floor(x) + b, for b of 0 or 1: there is no such number
\* for an x that is not finite
IsFloorPlus(v, x, b) == x.k = "fin" /\ FEq(v, FromI32(FloorToI32(x) + b))

\* the vertices yielded so far are those of the enumeration: vertex j - 1 has
\* floor + 1 in the dimensions whose bit of j - 1 is set and floor in the
\* others, None follows the 2^DIM vertices, and no two vertices are equal
VerticesEnumerated ==
    LET point == vertices.point
        dim == Len(point)
    IN  /\ Len(corners) <= (2 ^ dim) + 1
        /\ \A j \in 1..Len(corners) :
              IF j <= 2 ^ dim
              THEN /\ corners[j].tag = "Some"
                   /\ \A d \in 1..dim :
                         IsFloorPlus(corners[j].value[d], point[d],
                                     ((j - 1) \div (2 ^ (d - 1))) % 2)
              ELSE corners[j] = None
        /\ \A j, k \in 1..Len(corners) :
              j < k /\ k <= 2 ^ dim =>
                  \E d \in 1..dim : ~FEq(corners[j].value[d], corners[k].value[d])

\* C12 as stated: for every real point the iterator yields the 2^DIM distinct
\* vertices floor(p) + b(i) in the order of i, then None
C12_VertexEnumeration == vertices # NoResult => VerticesEnumerated

\* C12 amended: the same for every real point whose coordinates are finite
C12_VertexEnumerationFinite ==
    (vertices # NoResult /\ \A d \in 1..Len(vertices.point) : vertices.point[d].k = "fin")
        => VerticesEnumerated

\* the eight vertices of the test's (1.2, -5.9, 8.5) have been yielded, the
\* first of them (1.0, -6.0, 8.0), and None after them
C12_Witness ==
    /\ vertices # NoResult
    /\ Len(vertices.point) = 3
    /\ \A d \in 1..3 : vertices.point[d].k = "fin"
    /\ FloorToI32(vertices.point[2]) = -6
    /\ Len(corners) = 9
    /\ corners[1].value = <<FromI32(1), FromI32(-6), FromI32(8)>>
    /\ corners[9] = None

(***************************************************************************)
(* C13: for DIM in {1, 2, 3} the specialized evaluators perlin_1d,         *)
(* perlin_2d and perlin_3d and the generic evaluator of PerlinNode, the    *)
(* default value_at, compute the same value for the same hash function and *)
(* point: once both have been run on a node of one to three dimensions and *)
(* a point, they have returned the same.                                   *)
(***************************************************************************)
C13_SpecializedEqualsGeneric ==
    (/\ perlin # NoResult
     /\ perlin.node.dim \in 1..3
     /\ noise.dispatched # None
     /\ noise.default # None)
        => noise.dispatched = noise.default

(***************************************************************************)
(* The calls on the bit sets.                                              *)
(***************************************************************************)

BitsetOn == bitset # NoResult

\* y after call i: y of the next call, or of the client when i is the last
YAfter(i) == IF i = Len(calls) THEN bitset.y ELSE calls[i + 1].y

\* bit b of a byte
BitOf(byte, b) == (byte \div (2 ^ b)) % 2

(***************************************************************************)
(* C14: for all sets x and y over one key type and every key k,            *)
(* (x & y).include(k) = x.include(k) AND y.include(k), likewise | with OR  *)
(* and ^ with XOR, and (!x).include(k) = NOT x.include(k); x &= y, x |= y  *)
(* and x ^= y leave in x what x & y, x | y and x ^ y return; and x & y,    *)
(* x | y and x ^ y leave x and y as they were.                             *)
(***************************************************************************)
C14_BitwiseOperators ==
    BitsetOn =>
        \A i \in 1..Len(calls) :
            LET c == calls[i]
                K == Keys(c.x.key_type)
            IN  /\ c.op = "bitand" =>
                       /\ \A k \in K : include(c.out, k) = (include(c.x, k) /\ include(c.y, k))
                       /\ c.after = c.x /\ YAfter(i) = c.y
                /\ c.op = "bitor" =>
                       /\ \A k \in K : include(c.out, k) = (include(c.x, k) \/ include(c.y, k))
                       /\ c.after = c.x /\ YAfter(i) = c.y
                /\ c.op = "bitxor" =>
                       /\ \A k \in K : include(c.out, k) = (include(c.x, k) # include(c.y, k))
                       /\ c.after = c.x /\ YAfter(i) = c.y
                /\ c.op = "not" => \A k \in K : include(c.out, k) = ~include(c.x, k)
                /\ c.op = "bitand_assign" => c.after = bitand(c.x, c.y)
                /\ c.op = "bitor_assign" => c.after = bitor(c.x, c.y)
                /\ c.op = "bitxor_assign" => c.after = bitxor(c.x, c.y)

\* x & y was computed for sets that share a key and differ in another, over a
\* key type that leaves part of the last byte unused
C14_Witness ==
    /\ BitsetOn
    /\ \E i \in 1..Len(calls) :
           /\ calls[i].op = "bitand"
           /\ HAS_PROPER_TAIL(calls[i].x.key_type)
           /\ \E k, j \in Keys(calls[i].x.key_type) :
                  /\ include(calls[i].x, k) /\ include(calls[i].y, k)
                  /\ include(calls[i].x, j) /\ ~include(calls[i].y, j)

(***************************************************************************)
(* C15: !(!x) == x and two calls of toggle_all restore x, for every set x  *)
(* the operations produce, whether or not the size of the key type is a    *)
(* multiple of 8.                                                          *)
(***************************************************************************)
C15_DoubleNegation ==
    BitsetOn =>
        \A i \in 1..(Len(calls) - 1) :
            /\ (calls[i].op = "not" /\ calls[i + 1].op = "not") =>
                   calls[i + 1].out = calls[i].x
            /\ (calls[i].op = "toggle_all" /\ calls[i + 1].op = "toggle_all") =>
                   calls[i + 1].after = calls[i].x

\* x = !x twice on a set of 11 keys with some key in it and some key not
C15_Witness ==
    /\ BitsetOn
    /\ Len(calls) >= 2
    /\ calls[1].op = "not" /\ calls[2].op = "not"
    /\ HAS_PROPER_TAIL(calls[1].x.key_type)
    /\ \E k, j \in Keys(calls[1].x.key_type) : include(calls[1].x, k) /\ ~include(calls[1].x, j)

(***************************************************************************)
(* C16: all() satisfies all_set() and none() satisfies none_set();         *)
(* set_all() leaves a set equal to all() and clear_all() one equal to      *)
(* none(), whatever the set was; new(true) equals all() and new(false)     *)
(* equals none().                                                          *)
(***************************************************************************)
C16_AllAndNone ==
    BitsetOn =>
        /\ \A i \in 1..Len(calls) :
               LET c == calls[i]
                   T == c.x.key_type
               IN  /\ c.op = "set_all" => c.after = EnumBitSet_all(T)
                   /\ c.op = "clear_all" => c.after = EnumBitSet_none(T)
                   /\ c.op = "new" =>
                          c.after = IF c.arg THEN EnumBitSet_all(T) ELSE EnumBitSet_none(T)
        /\ \A i \in 1..(Len(calls) - 1) :
               /\ (calls[i].op = "all" /\ calls[i + 1].op = "all_set") => calls[i + 1].out
               /\ (calls[i].op = "none" /\ calls[i + 1].op = "none_set") => calls[i + 1].out

\* set_all() on a set of 6 or 11 keys that was not full
C16_Witness ==
    /\ BitsetOn
    /\ \E i \in 1..Len(calls) :
           /\ calls[i].op = "set_all"
           /\ HAS_PROPER_TAIL(calls[i].x.key_type)
           /\ calls[i].x # calls[i].after

(***************************************************************************)
(* C17: after set(k) include(k) is true, after clear(k) it is false, after *)
(* toggle(k) it is the negation of what it was; every other key j keeps    *)
(* its include(j), only bit (i mod 8) of byte (i div 8) being touched for  *)
(* the key of index i; and a second set(k) or clear(k) changes nothing.    *)
(***************************************************************************)
C17_SingleKey ==
    BitsetOn =>
        /\ \A i \in 1..Len(calls) :
               LET c == calls[i]
               IN  c.op \in {"set", "clear", "toggle"} =>
                       /\ include(c.after, c.arg) =
                              CASE c.op = "set" -> TRUE
                                [] c.op = "clear" -> FALSE
                                [] c.op = "toggle" -> ~include(c.x, c.arg)
                       /\ \A j \in Keys(c.x.key_type) \ {c.arg} :
                              include(c.after, j) = include(c.x, j)
                       /\ \A idx \in 0..TAIL_IDX(c.x.key_type), b \in 0..7 :
                              (idx # c.arg \div 8 \/ b # c.arg % 8) =>
                                  BitOf(c.after.bytes[idx + 1], b) = BitOf(c.x.bytes[idx + 1], b)
        /\ \A i \in 1..(Len(calls) - 1) :
               (/\ calls[i].op \in {"set", "clear"}
                /\ calls[i + 1].op = calls[i].op
                /\ calls[i + 1].arg = calls[i].arg) => calls[i + 1].after = calls[i].after

\* toggle(k) of a key that was in the set, in the second byte of a set of 11 keys
C17_Witness ==
    /\ BitsetOn
    /\ \E i \in 1..Len(calls) :
           /\ calls[i].op = "toggle"
           /\ calls[i].arg >= 8
           /\ include(calls[i].x, calls[i].arg)

(***************************************************************************)
(* C18: enum_bit_set![k1, ..., kn; v] builds a set in which every listed   *)
(* key has value v and every key that is not listed has value NOT v, for   *)
(* any list of keys, one that names a key more than once included, and     *)
(* both values of v.                                                       *)
(***************************************************************************)
C18_MacroWithKeys ==
    BitsetOn =>
        \A i \in 1..Len(calls) :
            LET c == calls[i]
            IN  c.op = "enum_bit_set" =>
                    \A k \in Keys(c.x.key_type) :
                        include(c.after, k) =
                            IF \E n \in 1..Len(c.arg.keys) : c.arg.keys[n] = k
                            THEN c.arg.val ELSE ~c.arg.val

(***************************************************************************)
(* The explodable rolls.                                                   *)
(***************************************************************************)

RECURSIVE SumOf(_)
SumOf(values) == IF values = <<>> THEN 0 ELSE Head(values) + SumOf(Tail(values))

\* a call of gen_explodable_range and a call of multi_gen_explodable_range
Explode == dice # NoResult /\ dice.fn = "gen_explodable_range"
Multi == dice # NoResult /\ dice.fn = "multi_gen_explodable_range"

\* at most max_depth + 1 draws, and no draw before the last is a miss
DrawsOfExplode ==
    /\ Len(rolls) <= dice.depth + 1
    /\ \A i \in 1..(Len(rolls) - 1) : rolls[i] >= dice.target

\* the call returned after a miss or after max_depth + 1 draws
StoppedExplode ==
    /\ Len(rolls) >= 1
    /\ rolls[Len(rolls)] < dice.target \/ Len(rolls) = dice.depth + 1

\* the call panicked for the empty range or for a sum that does not fit T
PanicOfRoll ==
    \/ is_empty(dice.range) /\ rolls = <<>>
    \/ dice.overflow_checks /\ SumOf(rolls) > T_MAX

\* the call returned the sum, wrapped to T by a build without overflow checks
ReturnOfRoll ==
    /\ dice.result = SumOf(rolls) % (T_MAX + 1)
    /\ dice.overflow_checks => SumOf(rolls) <= T_MAX

(***************************************************************************)
(* C19: gen_explodable_range(range, target, max_depth) draws values one    *)
(* after another and returns their sum, stopping after the first draw      *)
(* below target, which is part of the sum, or after exactly max_depth + 1  *)
(* draws if there is none; it always terminates, makes at least 1 and at   *)
(* most max_depth + 1 draws, and returns a single draw when max_depth = 0. *)
(***************************************************************************)
C19_Explodable ==
    /\ [](Explode =>
              /\ DrawsOfExplode
              /\ dice.status # "panicked"
              /\ dice.status = "returned" =>
                     /\ StoppedExplode
                     /\ dice.result = SumOf(rolls)
                     /\ dice.depth = 0 => dice.result = rolls[1])
    /\ <>(Explode => dice.status = "returned")

\* C19 for the calls it holds for: the same when the range is not empty and
\* the sum of the draws fits T; a call on an empty range panics in the sampler
\* before any draw, and a sum that does not fit T is a panic in a build with
\* overflow checks and wraps in one without.  The call ends in every case.
C19_ExplodableWithinT ==
    /\ [](Explode =>
              /\ DrawsOfExplode
              /\ dice.status = "panicked" => PanicOfRoll
              /\ dice.status = "returned" =>
                     /\ StoppedExplode
                     /\ ReturnOfRoll
                     /\ (dice.depth = 0 /\ SumOf(rolls) <= T_MAX) => dice.result = rolls[1])
    /\ <>(Explode => dice.status # "running")

\* a call with max_depth = 2 returned after three draws, none of them a miss
C19_Witness ==
    /\ Explode
    /\ dice.status = "returned"
    /\ dice.depth = 2 /\ Len(rolls) = 3
    /\ rolls[3] >= dice.target
    /\ dice.result = SumOf(rolls)

\* the sum of round r of a call with num_rolls rolls to the round
RoundSum(r) == SumOf(SubSeq(rolls, (r - 1) * dice.num_rolls + 1, r * dice.num_rolls))

\* the rounds of a call that were followed by another round
RoundsFollowed == 1..(IF dice.status = "returned" THEN dice.rounds - 1 ELSE dice.rounds)

\* rounds of num_rolls draws, at most max_depth + 1 of them
RoundsOfMulti ==
    /\ dice.rounds <= dice.depth + 1
    /\ Len(rolls) <= dice.num_rolls * (dice.depth + 1)
    /\ dice.status = "running" =>
           Len(rolls) = (dice.rounds * dice.num_rolls) + (dice.num_rolls - dice.local_num_rolls)
    /\ dice.status = "returned" => Len(rolls) = dice.rounds * dice.num_rolls

(***************************************************************************)
(* C20: multi_gen_explodable_range(num_rolls, range, target, max_depth)    *)
(* proceeds in rounds of exactly num_rolls draws, adds every round's sum   *)
(* to the total, and starts another round only if the round just made     *)
(* summed to at least target and fewer than max_depth + 1 rounds have been *)
(* made; it always terminates after at most max_depth + 1 rounds, at most  *)
(* num_rolls * (max_depth + 1) draws.                                      *)
(***************************************************************************)
C20_MultiExplodable ==
    /\ [](Multi =>
              /\ RoundsOfMulti
              /\ dice.status # "panicked"
              /\ \A r \in RoundsFollowed : RoundSum(r) >= dice.target /\ r < dice.depth + 1
              /\ dice.status = "returned" =>
                     /\ dice.rounds >= 1
                     /\ dice.result = SumOf(rolls))
    /\ <>(Multi => dice.status = "returned")

\* C20 for the calls it holds for: the same when the range is not empty and
\* the sums fit T; a sum that does not fit T is a panic in a build with
\* overflow checks, and in one without the round's sum and the total wrap, the
\* wrapped sum of the round being what is compared with target.  The call ends
\* in every case.
C20_MultiExplodableWithinT ==
    /\ [](Multi =>
              /\ RoundsOfMulti
              /\ dice.status = "panicked" => PanicOfRoll
              /\ \A r \in RoundsFollowed :
                     /\ RoundSum(r) % (T_MAX + 1) >= dice.target
                     /\ r < dice.depth + 1
              /\ dice.status = "returned" =>
                     /\ dice.rounds >= 1
                     /\ \/ RoundSum(dice.rounds) % (T_MAX + 1) < dice.target
                        \/ dice.rounds = dice.depth + 1
                     /\ ReturnOfRoll)
    /\ <>(Multi => dice.status # "running")

\* a call with two rolls to the round and max_depth = 2 returned after three
\* rounds
C20_Witness ==
    /\ Multi
    /\ dice.status = "returned"
    /\ dice.num_rolls = 2 /\ dice.depth = 2 /\ dice.rounds = 3
    /\ Len(rolls) = 6
    /\ dice.result = SumOf(rolls)

\* the state of the running hash_bytes call once the loops are behind it
SpanOn == span # NoResult
SpanLen == Len(span.bytes)
PastLoops == span.pc \in {"tail", "done"}

\* C21: in hash_bytes on a span of more than 16 bytes the 48-byte loop makes
\* floor(len / 48) passes if len >= 48 and none otherwise, the three seeds are
\* then folded into one exactly when that block was entered, the 16-byte loop
\* runs while more than 16 bytes remain and leaves between 0 and 16 of them, and
\* finish gets the reads of bytes [len - 16, len - 8) and [len - 8, len) with
\* len as the length; spans of at most 16 bytes never enter the loops
C21_LongSpanLoops ==
    SpanOn =>
        /\ SpanLen <= 16 =>
              /\ span.pc \in {"enter", "done"}
              /\ span.bulk = 0 /\ span.tail = 0 /\ span.folds = 0
              /\ span.st = NoResult
        /\ (SpanLen > 16 /\ span.pc = "bulk") =>
              /\ SpanLen >= 48
              /\ span.folds = 0 /\ span.tail = 0
              /\ span.bulk <= SpanLen \div 48
        /\ (SpanLen > 16 /\ PastLoops) =>
              /\ span.bulk = (IF SpanLen >= 48 THEN SpanLen \div 48 ELSE 0)
              /\ span.folds = (IF SpanLen >= 48 THEN 1 ELSE 0)
              /\ span.st.remaining = SpanLen - (48 * span.bulk) - (16 * span.tail)
              /\ span.st.remaining >= 0
              /\ span.tail > 0 => span.st.remaining + 16 > 16
        /\ (SpanLen > 16 /\ span.pc = "done") =>
              /\ span.st.remaining \in 0..16
              /\ span.finish.lhs = SubSeq(span.bytes, SpanLen - 15, SpanLen - 8)
              /\ span.finish.rhs = SubSeq(span.bytes, SpanLen - 7, SpanLen)
              /\ span.finish.len = SpanLen
              /\ span.out = hash_bytes(span.self, span.bytes)

\* a span of 2 * 48 + 16 + 5 bytes has been hashed: two passes of the 48-byte loop,
\* one of the 16-byte loop, 5 bytes left
C21_Witness ==
    /\ SpanOn
    /\ span.pc = "done"
    /\ SpanLen = 117
    /\ span.bulk = 2 /\ span.tail = 1 /\ span.folds = 1
    /\ span.st.remaining = 5

\* C28: every read of hash_bytes lies inside the span, for every span length:
\* offset_3 is not negative, offset + remaining = len all along the long path,
\* no read starts before 0 or ends after len, and the call does not panic
C28_ReadsInsideSpan ==
    SpanOn =>
        /\ span.pc # "panic"
        /\ AllInSpan(span.bytes, reads)
        /\ (SpanLen \in 4..16) => ShortReads(SpanLen)[4].at >= 0
        /\ span.st # NoResult => span.st.offset + span.st.remaining = SpanLen
        /\ span.pc = "done" =>
              Len(reads) = IF SpanLen > 16 THEN span.bulk + (2 * span.tail) + 2
                           ELSE Len(ShortReads(SpanLen))

\* a span of 96 bytes, a multiple of 16 and of 48, has been hashed: nothing was
\* left after the bulk loop, and the last two reads are of bytes 80..95
C28_Witness ==
    /\ SpanOn
    /\ span.pc = "done"
    /\ SpanLen = 96
    /\ span.st.remaining = 0
    /\ Len(reads) = 4
    /\ reads[3] = Read(80, 8) /\ reads[4] = Read(88, 8)

(***************************************************************************)
(* The claims about the candidates of WorleyNode::value_at, checked under  *)
(* SpecWorley                                                              *)
(***************************************************************************)

\* value_at has returned: its candidates, and the two it popped
Returned == result # NoResult /\ result.tag = "ok"
NumCandidates == Len(result.candidates)
FirstPopped == result.sorted[NumCandidates]
SecondPopped == result.sorted[NumCandidates - 1]

\* the candidates at the distance of the first popped, by place in the enumeration
AtMinimum == {i \in 1..NumCandidates : result.candidates[i].distance = FirstPopped.distance}

\* how often x occurs in v
Occurrences(v, x) == Cardinality({i \in 1..Len(v) : v[i] = x})

\* w holds the elements of v, each as often as v
IsRearranged(v, w) ==
    /\ Len(v) = Len(w)
    /\ \A i \in 1..Len(v) : Occurrences(w, v[i]) = Occurrences(v, v[i])

FZero == Quarters(FALSE, FromNat(0, 5))

\* C22: of the 3^DIM candidates of value_at the first popped after the sort is
\* at the least distance of all and the second popped at the least distance of
\* the others; Value mode returns the value of the hash of the first, Distance
\* mode returns (d2 - d1) / hypercube_diagonal_magnitude, which is not below 0
C22_NearestAndSecond ==
    Returned =>
        /\ NumCandidates = 3 ^ node.dim
        /\ IsRearranged(result.candidates, result.sorted)
        /\ \A i \in 1..NumCandidates :
              partial_cmp(result.candidates[i].distance, FirstPopped.distance) # "Less"
        /\ \A i \in 1..(NumCandidates - 1) :
              partial_cmp(result.sorted[i].distance, SecondPopped.distance) # "Less"
        /\ node.paint_method = "Value" =>
              result.value = f64_from_mantissa(FirstPopped.seed_value)
        /\ node.paint_method = "Distance" =>
              /\ result.value = FDiv(FSub(SecondPopped.distance, FirstPopped.distance),
                                     hypercube_diagonal_magnitude(node.metric, node.dim))
              /\ partial_cmp(result.value, FZero) # "Less"

\* value_at has returned the gap of a two-dimensional Manhattan node whose
\* nearest candidate was neither the first nor the last of the nine collected
C22_Witness ==
    /\ Returned
    /\ node.paint_method = "Distance"
    /\ node.metric = "Manhattan"
    /\ NumCandidates = 9
    /\ FirstPopped \notin {result.candidates[1], result.candidates[9]}
    /\ result.value.k = "fin"
    /\ FLess(FZero, result.value)

\* C30: when two or more candidates are at the least distance, value_at pops
\* the one of them that the neighbourhood enumerated last; Value mode returns
\* its value and Distance mode returns 0
C30_TiesTakeLastEnumerated ==
    (Returned /\ Cardinality(AtMinimum) >= 2) =>
        \A last \in {i \in AtMinimum : \A j \in AtMinimum : j <= i} :
            /\ FirstPopped = result.candidates[last]
            /\ node.paint_method = "Value" =>
                  result.value = f64_from_mantissa(result.candidates[last].seed_value)
            /\ node.paint_method = "Distance" => result.value = FZero

\* C30 for every distance: the gap of two candidates at the same infinite
\* distance is inf - inf, a NaN
C30_TiesTakeLastEnumeratedOrNaN ==
    (Returned /\ Cardinality(AtMinimum) >= 2) =>
        \A last \in {i \in AtMinimum : \A j \in AtMinimum : j <= i} :
            /\ FirstPopped = result.candidates[last]
            /\ node.paint_method = "Value" =>
                  result.value = f64_from_mantissa(result.candidates[last].seed_value)
            /\ node.paint_method = "Distance" =>
                  result.value = IF FirstPopped.distance.k = "inf" THEN NaN ELSE FZero

\* value_at has returned 0 as the gap of nine candidates that are all at the
\* same finite distance from a point far outside of the lattice
C30_Witness ==
    /\ Returned
    /\ node.paint_method = "Distance"
    /\ Cardinality(AtMinimum) = 9
    /\ FirstPopped.distance.k = "big"
    /\ FirstPopped = result.candidates[9]
    /\ FirstPopped # result.candidates[1]
    /\ result.value = FZero

(***************************************************************************)
(* The claim about the rounds of the default PerlinNode::value_at, checked *)
(* under SpecPerlin                                                        *)
(***************************************************************************)

\* the default value_at has run through its loop
HasRounds == noise # NoResult /\ noise.rounds # <<>>
Dim == perlin.node.dim

\* the fractional part of coordinate d of the point
Fraction(d) == Sub(perlin.point[d], RealPoint_floor(perlin.point)[d])

\* the vertex the neighborhood of the point yields at place c, counted from 0
CornerVertex(c) ==
    VertexNeighborhood_next([origin |-> RealPoint_floor(perlin.point),
                             current_index |-> c]).item.value

\* the vertex at place hi is the one at place lo moved up in coordinate d only
VerticesDiffer(lo, hi, d) ==
    \A e \in 1..Dim :
        IF e = d THEN partial_cmp(CornerVertex(lo)[e], CornerVertex(hi)[e]) = "Less"
        ELSE CornerVertex(lo)[e] = CornerVertex(hi)[e]

IsFinitePoint == \A d \in 1..Dim : perlin.point[d].k = "fin"

\* the lists of the default value_at are folded dimension after dimension; with
\* everywhere, the vertices of every lerped pair differ for every point
FoldedByDimension(everywhere) ==
    HasRounds =>
        /\ Dim >= 4
        /\ Len(noise.rounds) = Dim + 1
        /\ Len(noise.rounds[1]) = 2 ^ Dim
        /\ \A i \in 1..(2 ^ Dim) :
              /\ noise.rounds[1][i].corners = {i - 1}
              /\ Some(noise.rounds[1][i].value)
                     = noise_value_for(perlin.node, perlin.point, CornerVertex(i - 1))
        /\ \A d \in 1..Dim :
              /\ Len(noise.rounds[d + 1]) * 2 = Len(noise.rounds[d])
              /\ \A k \in 1..Len(noise.rounds[d + 1]) :
                    /\ noise.rounds[d + 1][k].value
                           = lerp(smoothstep(Fraction(d)), noise.rounds[d][(2 * k) - 1].value,
                                  noise.rounds[d][2 * k].value)
                    /\ noise.rounds[d][2 * k].corners
                           = {c + (2 ^ (d - 1)) : c \in noise.rounds[d][(2 * k) - 1].corners}
                    /\ \A c \in noise.rounds[d][(2 * k) - 1].corners :
                          /\ (c \div (2 ^ (d - 1))) % 2 = 0
                          /\ (everywhere \/ IsFinitePoint)
                                 => VerticesDiffer(c, c + (2 ^ (d - 1)), d)
        /\ Len(noise.rounds[Dim + 1]) = 1
        /\ noise.default
               = Some(smoothstep(neg_unit_to_unit(unbias(Dim, noise.rounds[Dim + 1][1].value))))

\* C23: in the default value_at the list of values starts with 2^DIM entries
\* in the order of the vertex neighborhood and is halved once per dimension d
\* by lerping the entries 2k and 2k + 1 with the smoothstep of the fractional
\* part of coordinate d; the vertices of each lerped pair differ in coordinate
\* d only, the lower ones on the left; after DIM rounds one value remains
C23_HalvedPerDimension == FoldedByDimension(TRUE)

\* C23 with the vertices of a pair differing where the point is finite: the
\* places of the vertices in the neighborhood differ in bit d in every case
C23_HalvedPerDimensionFinite == FoldedByDimension(FALSE)

\* the default value_at has folded the 16 values of a four-dimensional node
\* at a finite point that is not on the lattice
C23_Witness ==
    /\ HasRounds
    /\ Dim = 4
    /\ IsFinitePoint
    /\ \A d \in 1..Dim : ~IsZero(Fraction(d).mag)
    /\ Len(noise.rounds) = 5
    /\ noise.rounds[3][2].corners = {4, 5, 6, 7}
    /\ noise.rounds[5][1].corners = 0..15

(***************************************************************************)
(* The claims about the unused bits and the queries of EnumBitSet, checked *)
(* under SpecBitset                                                        *)
(***************************************************************************)

\* the sets a client has seen: x and y, and the sets the calls returned
ReturnsSet == {"bitand", "bitor", "bitxor", "not"}
SetsSeen ==
    {bitset.x, bitset.y}
        \cup {calls[i].after : i \in 1..Len(calls)}
        \cup {calls[i].out : i \in {j \in 1..Len(calls) : calls[j].op \in ReturnsSet}}

\* the bits of the last byte at or above NUM_BITS are 0
UnusedBitsClear(s) ==
    /\ ByteOp(AndNibble, s.bytes[TAIL_IDX(s.key_type) + 1], 255 - TAIL_MASK(s.key_type)) = 0
    /\ \A b \in 0..7 :
          (8 * TAIL_IDX(s.key_type)) + b >= s.key_type
              => BitOf(s.bytes[TAIL_IDX(s.key_type) + 1], b) = 0

\* C24: in every set reached from all(), none() or new() through set, clear,
\* toggle, set_all, clear_all, toggle_all, &, |, ^, ! and the assigning forms
\* the bits of the last byte at or above NUM_BITS are all 0, i.e. the last
\* byte AND NOT TAIL_MASK is 0, also when NUM_BITS is a multiple of 8
C24_UnusedBitsStayClear == BitsetOn => \A s \in SetsSeen : UnusedBitsClear(s)

\* !x was taken of a set of 11 keys that had key 10 out and keys in: bits 3 to
\* 7 of the second byte are unused, and x has key 10 in now
C24_Witness ==
    /\ BitsetOn
    /\ Len(calls) = 2
    /\ calls[2].op = "not"
    /\ bitset.x.key_type = 11
    /\ ~include(calls[2].x, 10)
    /\ ~none_set(calls[2].x)
    /\ include(bitset.x, 10)
    /\ bitset.x.bytes[2] < 8

\* every key of the set is in it, and none is
HasEveryKey(s) == \A k \in Keys(s.key_type) : include(s, k)
HasNoKey(s) == \A k \in Keys(s.key_type) : ~include(s, k)

\* C25: all_set() is true exactly when include(k) is true for every key k,
\* none_set() exactly when include(k) is false for every key k, and two sets
\* are equal exactly when they agree on include(k) for every key k
C25_QueriesAgreeWithInclude ==
    BitsetOn =>
        /\ \A s \in SetsSeen :
              /\ all_set(s) <=> HasEveryKey(s)
              /\ none_set(s) <=> HasNoKey(s)
              /\ \A other \in SetsSeen :
                    eq(s, other) <=> \A k \in Keys(s.key_type) : include(s, k) = include(other, k)
        /\ \A i \in 1..Len(calls) :
              /\ calls[i].op = "all_set" => (calls[i].out <=> HasEveryKey(calls[i].x))
              /\ calls[i].op = "none_set" => (calls[i].out <=> HasNoKey(calls[i].x))
              /\ calls[i].op = "eq" =>
                    (calls[i].out <=> \A k \in Keys(calls[i].x.key_type) :
                                          include(calls[i].x, k) = include(calls[i].arg, k))

\* after toggle_all on a set of 6 keys that had some keys, a set with two bits
\* of its byte unused, all_set() returned false; and a set of 11 keys compared
\* equal to all() after set_all
C25_Witness ==
    /\ BitsetOn
    /\ Len(calls) = 2
    /\ \/ /\ bitset.x.key_type = 6
          /\ calls[1].op = "toggle_all"
          /\ calls[2].op = "all_set"
          /\ ~calls[2].out
          /\ ~HasNoKey(bitset.x)
       \/ /\ bitset.x.key_type = 11
          /\ calls[1].op = "set_all"
          /\ calls[2].op = "eq"
          /\ calls[2].out

(***************************************************************************)
(* The claims about the canonical text form and about the order of the     *)
(* checks of from_base58, checked under SpecSeed                           *)
(***************************************************************************)

\* C26: for every string t for which from_base58(t) returns Ok(s), s.to_base58()
\* is t, character for character and with its leading '1's; hence two
\* different accepted strings do not decode to the same Seed
C26_CanonicalText == phase = "reencoded" => canonical = text

\* a string of the client's that starts with '1's and is not one of the test
\* literals was accepted, and to_base58 of its Seed has been taken
C26_Witness ==
    /\ phase = "reencoded"
    /\ seed = NoSeed
    /\ text \notin BaseTexts
    /\ text[1] = 49 /\ text[2] = 49
    /\ \E i \in 1..Len(text) : text[i] # 49
    /\ canonical = text

\* the string indices of the characters of s outside of the alphabet
InvalidIndices(s) == {i \in 0..(Len(s) - 1) : s[i + 1] \notin AlphabetSet}

\* C27: on an input of 44 characters from_base58 raises Overflow only while
\* it processes string index 0; an input with a character outside of the
\* alphabet yields InvalidCharacter, never Overflow, and the character
\* reported is the invalid one of the highest string index
C27_InvalidCharacterBeforeOverflow ==
    (phase = "parsed" /\ Len(text) = STR_LEN) =>
        /\ parsed.tag = "Overflow" => from_base58_at(text).at = STR_LEN - 1
        /\ InvalidIndices(text) # {} =>
              /\ parsed.tag = "InvalidCharacter"
              /\ \A i \in InvalidIndices(text) :
                    (\A j \in InvalidIndices(text) : j <= i) => parsed.character = text[i + 1]

\* the same for the inputs of 44 characters that are 44 bytes long, with the
\* index reported
InvalidCharacterBeforeOverflowAscii ==
    (phase = "parsed" /\ Len(text) = STR_LEN /\ StrLen(text) = STR_LEN) =>
        /\ parsed.tag = "Overflow" => from_base58_at(text).at = STR_LEN - 1
        /\ InvalidIndices(text) # {} =>
              /\ parsed.tag = "InvalidCharacter"
              /\ \A i \in InvalidIndices(text) :
                    (\A j \in InvalidIndices(text) : j <= i) =>
                        parsed.character = text[i + 1] /\ parsed.index = i

(***************************************************************************)
(* The claim about exhausted neighborhoods, checked under                  *)
(* SpecNeighborhoods                                                       *)
(***************************************************************************)

\* a step of an iterator from before to after, that made the list of items
\* grow from items to items2: the index does not go down, the origin stays,
\* and a call after None returns None and leaves the iterator as it was
StaysExhausted(before, after, items, items2) ==
    /\ after.current_index >= before.current_index
    /\ after.origin = before.origin
    /\ (items2 # items /\ \E j \in 1..Len(items) : items[j] = None) =>
          /\ items2 = Append(items, None)
          /\ after = before

\* C29: LatticeNeighborhood and VertexNeighborhood are single-pass and stay
\* exhausted: current_index only increases and never exceeds 3^DIM (2^DIM),
\* once next has returned None every later call returns None and leaves the
\* iterator unchanged, and next never modifies the origin
C29_StayExhausted ==
    /\ [](/\ neighborhood.iter.current_index <= 3 ^ Len(neighborhood.iter.origin)
          /\ vertices.iter.current_index <= 2 ^ Len(vertices.iter.origin))
    /\ [][/\ StaysExhausted(neighborhood.iter, neighborhood'.iter, yielded, yielded')
          /\ StaysExhausted(vertices.iter, vertices'.iter, corners, corners')]_vars

\* both iterators have returned None and have been called again twice: a
\* lattice neighborhood of 26 points and a vertex neighborhood of 8
C29_Witness ==
    /\ Len(neighborhood.iter.origin) = 3
    /\ ~neighborhood.iter.include_self
    /\ Len(yielded) = 26 + 1 + MaxCallsAfterNone
    /\ yielded[26].tag = "Some"
    /\ \A j \in 27..Len(yielded) : yielded[j] = None
    /\ neighborhood.iter.current_index = 27
    /\ Len(vertices.iter.origin) = 3
    /\ Len(corners) = 8 + 1 + MaxCallsAfterNone
    /\ corners[8].tag = "Some"
    /\ \A j \in 9..Len(corners) : corners[j] = None
    /\ vertices.iter.current_index = 8

=============================================================================
